---------------------------- MODULE Spec2Model ----------------------------
(***************************************************************************)
(* A state-machine model of gerbmerge.merge (src/gerbmerge/gerbmerge.py)   *)
(* and of the writers it calls.                                            *)
(*                                                                         *)
(* Lengths are integers counted in mils (0.001 inch), so that 0.1" is 100  *)
(* and 0.125" is 125.  util.in2gerb, which turns inches into the 1e-5 inch *)
(* Gerber grid, is therefore a multiplication by 100.                      *)
(*                                                                         *)
(* Aperture codes 'Dnn' are the integers nn (>= 10), 0 stands for None.    *)
(* Drill tool names 'Tnn' are the integers nn (below 100 the string order  *)
(* used by Tools.sort() is the numeric order).                             *)
(***************************************************************************)
EXTENDS Integers, Sequences, FiniteSets, TLC

VARIABLES
  pc,                        \* position of the control in merge
  result,                    \* how merge ended: "" while running
  opts, args,                \* merge's arguments
  writeGerberHeader,         \* local writeGerberHeader: 225 (22.5 deg) or 0
  config,                    \* config.AutoSearchType, PlacementFile, Trim...
  configRead,                \* config.parseConfigFile has been called
  Config,                    \* config.Config dictionary
  LayerList,                 \* config.LayerList, as its key order
  MinimumFeatureDimension,   \* config.MinimumFeatureDimension
  Jobs,                      \* config.Jobs: name -> job
  rjobs,                     \* the rotated job objects: name -> job
  GAT, GAMT,                 \* global aperture (macro) table
  GlobalToolMap,             \* config.GlobalToolMap: tool -> diameter
  GlobalToolRMap,            \* config.GlobalToolRMap: diameter -> tool
  OriginX, OriginY,          \* locals of merge
  tile,                      \* what the packer returned to tile_jobs
  Place,                     \* Place.jobs, None before the layout
  MaxXExtent, MaxYExtent,    \* locals of merge
  drawing_code,              \* drawing_code_cut, _crop, _fiducial_*, 1
  layerIdx,                  \* position of the layer loop in LayerList
  apUsedDict, apmUsedDict,   \* locals of the layer loop
  Tools,                     \* local Tools (sorted tool names)
  OutputFiles,               \* local OutputFiles
  files,                     \* the file system: name -> lines written
  disk                       \* which family of input files the run reads

vars == << pc, result, opts, args, writeGerberHeader, config, configRead,
           Config, LayerList, MinimumFeatureDimension, Jobs, rjobs, GAT, GAMT,
           GlobalToolMap, GlobalToolRMap, OriginX, OriginY, tile, Place,
           MaxXExtent, MaxYExtent, drawing_code, layerIdx, apUsedDict,
           apmUsedDict, Tools, OutputFiles, files, disk >>

(***************************************************************************)
(* Bounds of the model.                                                    *)
(***************************************************************************)
MaxOpts == 2
MaxFiducials == 2
MaxRepeat == 2

(***************************************************************************)
(* Program constants.                                                      *)
(***************************************************************************)
RANDOM_SEARCH == 1
EXHAUSTIVE_SEARCH == 2
FROM_FILE == 3
Origin == 100

None == "None"
Header22 == 225
Header0 == 0

(***************************************************************************)
(* Generic helpers.                                                        *)
(***************************************************************************)
Range(f) == { f[i] : i \in DOMAIN f }

Max(S) == CHOOSE m \in S : \A n \in S : n <= m

Min(S) == CHOOSE m \in S : \A n \in S : m <= n

Abs(n) == IF n < 0 THEN -n ELSE n

RECURSIVE SortedSeq(_)
SortedSeq(S) ==
  IF S = {} THEN << >>
  ELSE LET m == Min(S) IN << m >> \o SortedSeq(S \ {m})

RECURSIVE SumSeq(_)
SumSeq(s) == IF s = << >> THEN 0 ELSE Head(s) + SumSeq(Tail(s))

RECURSIVE Concat(_)
Concat(ss) == IF ss = << >> THEN << >> ELSE Head(ss) \o Concat(Tail(ss))

SeqsUpTo(S, n) == UNION { [1..k -> S] : k \in 0..n }

(***************************************************************************)
(* merge, lines 279-312: the option loop and the argument count.           *)
(***************************************************************************)
Opt(o, a) == [opt |-> o, arg |-> a]

\* the string arguments int() accepts in this model
IntArgs == { "0", "3" }

InitialConfig ==
  [ AutoSearchType |-> RANDOM_SEARCH, RandomSearchExhaustiveJobs |-> "2",
    PlacementFile |-> None, SearchTimeout |-> "0",
    TrimGerber |-> 1, TrimExcellon |-> 1 ]

OptState(h, c, e) == [header |-> h, config |-> c, error |-> e]

\* a variant of OneOption that accepts every option and every value
OneOptionNoRaise(o, st) ==
  IF o.opt = "--octagons" THEN
    IF o.arg = "rotate" THEN [st EXCEPT !.header = Header0]
    ELSE IF o.arg = "normal" THEN [st EXCEPT !.header = Header22]
    ELSE st
  ELSE IF o.opt = "--random-search" THEN
    [st EXCEPT !.config.AutoSearchType = RANDOM_SEARCH]
  ELSE IF o.opt = "--full-search" THEN
    [st EXCEPT !.config.AutoSearchType = EXHAUSTIVE_SEARCH]
  ELSE IF o.opt = "--place-file" THEN
    [st EXCEPT !.config.AutoSearchType = FROM_FILE,
               !.config.PlacementFile = o.arg]
  ELSE IF o.opt = "--no-trim-gerber" THEN [st EXCEPT !.config.TrimGerber = 0]
  ELSE IF o.opt = "--no-trim-excellon" THEN
    [st EXCEPT !.config.TrimExcellon = 0]
  ELSE st

\* one iteration of the loop of lines 285-309
OneOption(o, st) ==
  IF o.opt = "--octagons" THEN
    IF o.arg = "rotate" THEN [st EXCEPT !.header = Header0]
    ELSE IF o.arg = "normal" THEN [st EXCEPT !.header = Header22]
    ELSE [st EXCEPT !.error = "Unknown octagon format"]
  ELSE IF o.opt = "--random-search" THEN
    [st EXCEPT !.config.AutoSearchType = RANDOM_SEARCH]
  ELSE IF o.opt = "--full-search" THEN
    [st EXCEPT !.config.AutoSearchType = EXHAUSTIVE_SEARCH]
  ELSE IF o.opt = "--rs-fsjobs" THEN
    IF o.arg \in IntArgs
    THEN [st EXCEPT !.config.RandomSearchExhaustiveJobs = o.arg]
    ELSE [st EXCEPT !.error = "ValueError"]
  ELSE IF o.opt = "--search-timeout" THEN
    IF o.arg \in IntArgs
    THEN [st EXCEPT !.config.SearchTimeout = o.arg]
    ELSE [st EXCEPT !.error = "ValueError"]
  ELSE IF o.opt = "--place-file" THEN
    [st EXCEPT !.config.AutoSearchType = FROM_FILE,
               !.config.PlacementFile = o.arg]
  ELSE IF o.opt = "--no-trim-gerber" THEN [st EXCEPT !.config.TrimGerber = 0]
  ELSE IF o.opt = "--no-trim-excellon" THEN
    [st EXCEPT !.config.TrimExcellon = 0]
  ELSE [st EXCEPT !.error = "Unknown option"]

\* the loop: it stops at the first option that raises
RECURSIVE OptionLoop(_, _)
OptionLoop(os, st) ==
  IF os = << >> \/ st.error # "" THEN st
  ELSE OptionLoop(Tail(os), OneOption(Head(os), st))

\* line 311
ArgCountOk(a) == ~ (Len(a) > 2 \/ Len(a) < 1)

\* lines 280-312 as a whole
ParseArguments(os, a, cfg) ==
  LET st == OptionLoop(os, OptState(Header22, cfg, ""))
  IN  IF st.error # "" THEN st
      ELSE IF ~ ArgCountOk(a)
           THEN [st EXCEPT !.error = "Invalid number of arguments"]
           ELSE st

(***************************************************************************)
(* The job model (module jobs).  A layer command stream is a sequence of   *)
(* tokens: an aperture select (ap # 0) or a coordinate with its opcode d   *)
(* (1 draw, 2 move, 3 flash).  The drill program is xdiam: tool ->         *)
(* diameter and xcommands: tool -> hits.                                   *)
(***************************************************************************)
Sel(code) == [ap |-> code, x |-> 0, y |-> 0, d |-> 0]

XY(px, py, op) == [ap |-> 0, x |-> px, y |-> py, d |-> op]

IsSel(tok) == tok.ap # 0

Hit(px, py) == << px, py >>

hasLayer(job, layername) == layername \in DOMAIN job.commands

width_in(job) == job.maxx - job.minx

height_in(job) == job.maxy - job.miny

maxdimension(job) ==
  IF width_in(job) > height_in(job) THEN width_in(job) ELSE height_in(job)

CoordTokens(job) ==
  { t \in UNION { Range(job.commands[l]) : l \in DOMAIN job.commands } :
      ~ IsSel(t) }

DrillHits(job) ==
  UNION { Range(job.xcommands[t]) : t \in DOMAIN job.xcommands }

\* Job.mincoordinates: the minimum x and y over all layers and the drill data
\* (0 stands in for a job that has no coordinate at all: nothing to shift)
mincoordinates(job) ==
  LET xs == { t.x : t \in CoordTokens(job) } \cup { h[1] : h \in DrillHits(job) }
      ys == { t.y : t \in CoordTokens(job) } \cup { h[2] : h \in DrillHits(job) }
  IN  << IF xs = {} THEN 0 ELSE Min(xs), IF ys = {} THEN 0 ELSE Min(ys) >>

ShiftTok(tok, sx, sy) ==
  IF IsSel(tok) THEN tok ELSE [tok EXCEPT !.x = @ + sx, !.y = @ + sy]

\* Job.fixcoordinates: add the shift to every coordinate of every layer and
\* of the drill data, and to the cached extents
fixcoordinates(job, sx, sy) ==
  [ job EXCEPT
      !.minx = @ + sx, !.maxx = @ + sx, !.miny = @ + sy, !.maxy = @ + sy,
      !.commands = [ l \in DOMAIN job.commands |->
                       [ i \in DOMAIN job.commands[l] |->
                           ShiftTok(job.commands[l][i], sx, sy) ] ],
      !.xcommands = [ t \in DOMAIN job.xcommands |->
                        [ i \in DOMAIN job.xcommands[t] |->
                            Hit(job.xcommands[t][i][1] + sx,
                                job.xcommands[t][i][2] + sy) ] ] ]

InBox(job, px, py) ==
  job.minx <= px /\ px <= job.maxx /\ job.miny <= py /\ py <= job.maxy

\* Job.trimGerber: flashes outside the outline's box are dropped (the model's
\* streams hold no draw that leaves the box)
trimGerber(job) ==
  [ job EXCEPT
      !.commands = [ l \in DOMAIN job.commands |->
                       SelectSeq(job.commands[l],
                                 LAMBDA t : IsSel(t) \/ t.d # 3
                                            \/ InBox(job, t.x, t.y)) ] ]

\* Job.trimExcellon: drill hits outside the outline's box are dropped
trimExcellon(job) ==
  [ job EXCEPT
      !.xcommands = [ t \in DOMAIN job.xcommands |->
                        SelectSeq(job.xcommands[t],
                                  LAMBDA h : InBox(job, h[1], h[2])) ] ]

\* jobs.rotateJob(job, 90): (x, y) -> (-y, x), shifted back so that the
\* lower-left corner of the outline stays where it was
RotXY(job, px, py) == << job.minx + (job.maxy - py), job.miny + (px - job.minx) >>

rotateJob(job) ==
  [ job EXCEPT
      !.maxx = job.minx + height_in(job),
      !.maxy = job.miny + width_in(job),
      !.commands = [ l \in DOMAIN job.commands |->
                       [ i \in DOMAIN job.commands[l] |->
                           LET t == job.commands[l][i]
                           IN  IF IsSel(t) THEN t
                               ELSE [t EXCEPT !.x = RotXY(job, t.x, t.y)[1],
                                              !.y = RotXY(job, t.x, t.y)[2]] ] ],
      !.xcommands = [ t \in DOMAIN job.xcommands |->
                        [ i \in DOMAIN job.xcommands[t] |->
                            RotXY(job, job.xcommands[t][i][1],
                                  job.xcommands[t][i][2]) ] ] ]

(***************************************************************************)
(* The aperture table (module aptable).  An aperture is a circle (dimy =   *)
(* 0), a rectangle, or an instance of a macro of GAMT.                     *)
(***************************************************************************)
Circle(dia) == [type |-> "Circle", dimx |-> dia, dimy |-> 0, macro |-> 0]

Rectangle(w, h) == [type |-> "Rectangle", dimx |-> w, dimy |-> h, macro |-> 0]

MacroAp(m) == [type |-> "Macro", dimx |-> 0, dimy |-> 0, macro |-> m]

\* aptable.findInApertureTable: the code of an equal aperture, or None (0)
findInApertureTable(gat, AP) ==
  LET found == { c \in DOMAIN gat : gat[c] = AP }
  IN  IF found = {} THEN 0 ELSE Min(found)

\* the next free code, D10 first
NextCode(gat) == IF DOMAIN gat = {} THEN 10 ELSE Max(DOMAIN gat) + 1

\* aptable.addToApertureTable: the table with AP under the next free code
addToApertureTable(gat, AP) ==
  [ c \in DOMAIN gat \cup { NextCode(gat) } |->
      IF c \in DOMAIN gat THEN gat[c] ELSE AP ]

\* aptable.findOrAddAperture: << the table, the code of AP in it >>
findOrAddAperture(gat, AP) ==
  IF findInApertureTable(gat, AP) # 0
  THEN << gat, findInApertureTable(gat, AP) >>
  ELSE << addToApertureTable(gat, AP), NextCode(gat) >>

\* Aperture.getAdjusted: the aperture grown to the minimum, or None when it
\* already meets it (a macro instance is never grown in this model)
NoAperture == [type |-> "None", dimx |-> 0, dimy |-> 0, macro |-> 0]

getAdjusted(AP, minimum) ==
  IF AP.type = "Circle" /\ AP.dimx < minimum THEN Circle(minimum)
  ELSE IF AP.type = "Rectangle" /\ (AP.dimx < minimum \/ AP.dimy < minimum)
  THEN Rectangle(IF AP.dimx < minimum THEN minimum ELSE AP.dimx,
                 IF AP.dimy < minimum THEN minimum ELSE AP.dimy)
  ELSE NoAperture

\* Job.aperturesAndMacros: the apertures selected in the layer's stream and
\* the macros these apertures instantiate
aperturesAndMacros(gat, job, layername) ==
  LET aps == IF hasLayer(job, layername)
             THEN { t.ap : t \in { u \in Range(job.commands[layername]) : IsSel(u) } }
             ELSE {}
  IN  << aps, { gat[a].macro : a \in { b \in aps : gat[b].type = "Macro" } } >>

(***************************************************************************)
(* Output files.  A file is the sequence of the lines written to it.  A    *)
(* line carries its kind k, a name s, a number n (aperture code, tool,     *)
(* macro key), coordinates on the Gerber grid and the opcode d.  The       *)
(* fields by and j are not in the file: they record which writer wrote the *)
(* line ("job", "cut", "crop", "fid", "") and for which entry of           *)
(* Place.jobs, so that the order of the writes can be stated.              *)
(***************************************************************************)
Line(kind, str, num, px, py, op, w, idx) ==
  [k |-> kind, s |-> str, n |-> num, x |-> px, y |-> py, d |-> op,
   by |-> w, j |-> idx]

\* util.in2gerb: inches to the 1e-5 inch grid; lengths are mils here
in2gerb(mils) == mils * 100

\* in2gerb of a length given in half mils (crop marks sit at dimx/2.0)
in2gerbHalf(halfmils) == halfmils * 50

writeGerberHeader22degrees(fid) ==
  Append(fid, Line("header", "OC8", Header22, 0, 0, 0, "", 0))

writeGerberHeader0degrees(fid) ==
  Append(fid, Line("header", "OC8", Header0, 0, 0, 0, "", 0))

\* the call writeGerberHeader(fid) through merge's local variable
CallGerberHeader(h, fid) ==
  IF h = Header0 THEN writeGerberHeader0degrees(fid)
  ELSE writeGerberHeader22degrees(fid)

MacroDefLine(key) == Line("macrodef", "", key, 0, 0, 0, "", 0)

ApDefLine(code, AP) == Line("apdef", AP.type, code, AP.dimx, AP.dimy, 0, "", 0)

\* the sorted keys of a table that are in usedDict, as keys.sort() and the
\* loop "for key in keys: if key in usedDict" visit them
UsedKeysInOrder(table, usedDict) ==
  SelectSeq(SortedSeq(DOMAIN table), LAMBDA key : key \in usedDict)

writeApertureMacros(fid, gamt, usedDict) ==
  fid \o [ i \in DOMAIN UsedKeysInOrder(gamt, usedDict) |->
             MacroDefLine(UsedKeysInOrder(gamt, usedDict)[i]) ]

writeApertures(fid, gat, usedDict) ==
  fid \o [ i \in DOMAIN UsedKeysInOrder(gat, usedDict) |->
             ApDefLine(UsedKeysInOrder(gat, usedDict)[i],
                       gat[UsedKeysInOrder(gat, usedDict)[i]]) ]

writeGerberFooter(fid) == Append(fid, Line("M02", "", 0, 0, 0, 0, "", 0))

writeExcellonHeader(fid) == Append(fid, Line("%", "", 0, 0, 0, 0, "", 0))

writeExcellonFooter(fid) == Append(fid, Line("M30", "", 0, 0, 0, 0, "", 0))

writeExcellonTool(fid, tool, size) ==
  Append(fid, Line("tooldef", "", tool, size, 0, 0, "", 0))

FlashLine(px, py, w) == Line("xy", "", 0, in2gerb(px), in2gerb(py), 3, w, 0)

\* one fiducial point as lines 157-164 compute it
FiducialPoint(px, py, OX, OY, MX, MY) ==
  << IF px >= 0 THEN px + OX ELSE MX + px,
     IF py >= 0 THEN py + OX ELSE MY + py >>

\* writeFiducials, lines 146-165; fList is config.Config['fiducialpoints']
\* split at the commas, of even length
writeFiducials(fid, fList, drawcode, OX, OY, MX, MY) ==
  Append(fid, Line("select", "", drawcode, 0, 0, 0, "fid", 0))
  \o [ i \in 1..(Len(fList) \div 2) |->
         LET p == FiducialPoint(fList[2*i - 1], fList[2*i], OX, OY, MX, MY)
         IN  FlashLine(p[1], p[2], "fid") ]

CropLine(x2, y2, op) ==
  Line("xy", "", 0, in2gerbHalf(x2), in2gerbHalf(y2), op, "crop", 0)

\* writeCropMarks, lines 167-203; coordinates in half mils, offset = dimx/2
writeCropMarks(fid, gat, drawing_code_crop, OX, OY, MX, MY) ==
  LET o  == gat[drawing_code_crop].dimx
      lx == 2*OX + o
      ly == 2*OY + o
      rx == 2*MX - o
      uy == 2*MY - o
  IN  Append(fid, Line("select", "", drawing_code_crop, 0, 0, 0, "crop", 0))
      \o << CropLine(lx + 250, ly, 2), CropLine(lx, ly, 1), CropLine(lx, ly + 250, 1),
            CropLine(rx, ly + 250, 2), CropLine(rx, ly, 1), CropLine(rx - 250, ly, 1),
            CropLine(rx - 250, uy, 2), CropLine(rx, uy, 1), CropLine(rx, uy - 250, 1),
            CropLine(lx, uy - 250, 2), CropLine(lx, uy, 1), CropLine(lx + 250, uy, 1) >>

(***************************************************************************)
(* Placement (module placement): Place.jobs is a sequence of job layouts,  *)
(* each naming its job object (the job of config.Jobs or its rotated       *)
(* counterpart) and its lower-left corner on the panel.                    *)
(***************************************************************************)
JobLayout(nm, rot, px, py) == [name |-> nm, rotated |-> rot, x |-> px, y |-> py]

\* joblayout.job
JobOf(J, R, jl) == IF jl.rotated THEN R[jl.name] ELSE J[jl.name]

\* Placement.extents: the upper-right corner of the placed jobs
extents(J, R, place) ==
  << Max({ place[i].x + width_in(JobOf(J, R, place[i])) : i \in DOMAIN place }),
     Max({ place[i].y + height_in(JobOf(J, R, place[i])) : i \in DOMAIN place }) >>

\* Placement.write: one line per placed job
PlacementLines(place) ==
  [ i \in DOMAIN place |->
      Line("place", place[i].name, IF place[i].rotated THEN 1 ELSE 0,
           place[i].x, place[i].y, 0, "", i) ]

\* JobLayout.writeGerber: the layer's stream of the job, moved to the
\* layout's corner; nothing for a job without the layer
GerberLines(job, jl, layername, idx) ==
  IF ~ hasLayer(job, layername) THEN << >>
  ELSE [ i \in DOMAIN job.commands[layername] |->
           LET t == job.commands[layername][i]
           IN  IF IsSel(t) THEN Line("select", "", t.ap, 0, 0, 0, "job", idx)
               ELSE Line("xy", "", 0, in2gerb(jl.x + t.x - job.minx),
                         in2gerb(jl.y + t.y - job.miny), t.d, "job", idx) ]

\* JobLayout.writeCutLines: the four segments around the job's footprint
CutLines(job, jl, idx) ==
  LET x0 == in2gerb(jl.x)
      y0 == in2gerb(jl.y)
      x1 == in2gerb(jl.x + width_in(job))
      y1 == in2gerb(jl.y + height_in(job))
  IN  << Line("xy", "", 0, x0, y0, 2, "cut", idx),
         Line("xy", "", 0, x0, y1, 1, "cut", idx),
         Line("xy", "", 0, x1, y1, 1, "cut", idx),
         Line("xy", "", 0, x1, y0, 1, "cut", idx),
         Line("xy", "", 0, x0, y0, 1, "cut", idx) >>

\* JobLayout.writeExcellon(fid, diameter): the hits of the job's tools of
\* that diameter, moved to the layout's corner
ExcellonLines(job, jl, diameter, idx) ==
  Concat([ k \in DOMAIN SortedSeq({ t \in DOMAIN job.xdiam : job.xdiam[t] = diameter }) |->
             LET t == SortedSeq({ u \in DOMAIN job.xdiam : job.xdiam[u] = diameter })[k]
             IN  IF t \in DOMAIN job.xcommands
                 THEN [ i \in DOMAIN job.xcommands[t] |->
                          Line("hit", "", 0,
                               in2gerb(jl.x + job.xcommands[t][i][1] - job.minx),
                               in2gerb(jl.y + job.xcommands[t][i][2] - job.miny),
                               0, "job", idx) ]
                 ELSE << >> ])

\* JobLayout.drillhits(diameter)
drillhits(job, diameter) ==
  Len(Concat([ k \in DOMAIN SortedSeq({ t \in DOMAIN job.xdiam : job.xdiam[t] = diameter }) |->
                 LET t == SortedSeq({ u \in DOMAIN job.xdiam : job.xdiam[u] = diameter })[k]
                 IN  IF t \in DOMAIN job.xcommands THEN job.xcommands[t] ELSE << >> ]))

(***************************************************************************)
(* The input files.  config.parseConfigFile, parselayout.parseLayoutFile   *)
(* and the reading of the placement file are not part of gerbmerge.py:     *)
(* what they return is drawn from the bounded families below.              *)
(***************************************************************************)
OutlineStream(w, h) == << Sel(10), XY(0, 0, 2), XY(w, h, 1) >>

MkJob(nm, w, h, top, mask, xd, xc, rep) ==
  [ name |-> nm, minx |-> 0, miny |-> 0, maxx |-> w, maxy |-> h,
    commands |-> ("boardoutline" :> OutlineStream(w, h)) @@
                 (IF top = << >> THEN << >> ELSE "*toplayer" :> top) @@
                 (IF mask = << >> THEN << >> ELSE "*topsoldermask" :> mask),
    xdiam |-> xd, xcommands |-> xc, Repeat |-> rep ]

BaseConfig ==
  [ panelwidth |-> 2000, panelheight |-> 2000,
    leftmargin |-> 0, bottommargin |-> 0, rightmargin |-> 0, topmargin |-> 0,
    xspacing |-> 0, yspacing |-> 0,
    cutlinewidth |-> 10, cropmarkwidth |-> 10,
    cutlinelayers |-> {}, cropmarklayers |-> {},
    fiducialpoints |-> << >>,
    fiducialcopperdiameter |-> 40, fiducialmaskdiameter |-> 60,
    outlinelayerfile |-> "none", scoringfile |-> "none",
    fabricationdrawingfile |-> "none",
    drillclustertolerance |-> 0 ]

\* what parseConfigFile loads
Loaded(cfg, layers, mfd, jobs, gat, gamt, rmap, tmap) ==
  [ Config |-> cfg, LayerList |-> layers, MinimumFeatureDimension |-> mfd,
    Jobs |-> jobs, GAT |-> gat, GAMT |-> gamt,
    GlobalToolRMap |-> rmap, GlobalToolMap |-> tmap ]

NoMap == [ z \in {} |-> 0 ]

JobSet(S) == [ nm \in { job.name : job \in S } |->
                 CHOOSE job \in S : job.name = nm ]

\* family "main": placement sources, panel sizes, the fabrication drawing
MainGAT == (10 :> Circle(10)) @@ (11 :> Circle(4))

MainJobA ==
  MkJob("a", 1000, 500, << Sel(11), XY(100, 100, 3) >>, << >>,
        (1 :> 30), (1 :> << Hit(100, 100) >>), 1)

MainJobB ==
  MkJob("b", 500, 1000, << Sel(11), XY(200, 200, 3) >>, << >>,
        (1 :> 30) @@ (2 :> 40) @@ (3 :> 50),
        (1 :> << Hit(50, 50) >>) @@ (2 :> << Hit(60, 60) >>) @@ (3 :> << >>), 1)

MainConfigs ==
  { BaseConfig,
    [BaseConfig EXCEPT !.panelwidth = 800, !.panelheight = 800],
    [BaseConfig EXCEPT !.fabricationdrawingfile = "fab.ger",
                       !.outlinelayerfile = "outline.ger",
                       !.scoringfile = "scoring.ger",
                       !.cutlinelayers = {"boardoutline"},
                       !.cropmarklayers = {"boardoutline"},
                       !.fiducialpoints = << 125, 125, -125, -125 >>,
                       !.rightmargin = 100, !.topmargin = 100] }

MainInputs ==
  { Loaded(cfg, << "*toplayer", "centroid", "boardoutline" >>, NoMap,
           JobSet(S), MainGAT, NoMap, NoMap, NoMap) :
      cfg \in MainConfigs, S \in { {MainJobA}, {MainJobA, MainJobB} } }

(***************************************************************************)
(* merge, lines 319-326: all coordinates are forced positive.              *)
(***************************************************************************)
\* a variant of NormalizeJob that shifts only when both minima are negative
NormalizeJobBothAxes(job) ==
  LET m == mincoordinates(job)
      shift_x == IF m[1] < 0 THEN Abs(m[1]) ELSE 0
      shift_y == IF m[2] < 0 THEN Abs(m[2]) ELSE 0
  IN  IF (shift_x > 0) /\ (shift_y > 0)
      THEN fixcoordinates(job, shift_x, shift_y) ELSE job

NormalizeJob(job) ==
  LET m == mincoordinates(job)
      shift_x == IF m[1] < 0 THEN Abs(m[1]) ELSE 0
      shift_y == IF m[2] < 0 THEN Abs(m[2]) ELSE 0
  IN  IF (shift_x > 0) \/ (shift_y > 0)
      THEN fixcoordinates(job, shift_x, shift_y) ELSE job

(***************************************************************************)
(* The layout, lines 360-385.                                              *)
(***************************************************************************)
RECURSIVE SetToSeq(_)
SetToSeq(S) ==
  IF S = {} THEN << >>
  ELSE LET e == CHOOSE e \in S : TRUE IN << e >> \o SetToSeq(S \ {e})

Entry(nm, rot) == [name |-> nm, rotated |-> rot]

EntryJob(J, R, e) == IF e.rotated THEN R[e.name] ELSE J[e.name]

\* Row.setPosition: the jobs of a row from left to right, xspacing apart
RECURSIVE RowPositions(_, _, _, _, _, _)
RowPositions(J, R, row, X, Y, xspacing) ==
  IF row = << >> THEN << >>
  ELSE << JobLayout(Head(row).name, Head(row).rotated, X, Y) >> \o
       RowPositions(J, R, Tail(row),
                    X + width_in(EntryJob(J, R, Head(row))) + xspacing, Y, xspacing)

\* Row.height_in
RowHeight(J, R, row) == Max({ height_in(EntryJob(J, R, row[i])) : i \in DOMAIN row })

\* lines 364-373: the rows from bottom to top, yspacing apart, then
\* Placement.addFromLayout
RECURSIVE LayoutPositions(_, _, _, _, _, _)
LayoutPositions(J, R, Layout, X, Y, cfg) ==
  IF Layout = << >> THEN << >>
  ELSE RowPositions(J, R, Head(Layout), X, Y, cfg.xspacing) \o
       LayoutPositions(J, R, Tail(Layout), X,
                       Y + RowHeight(J, R, Head(Layout)) + cfg.yspacing, cfg)

\* tile_jobs, lines 255-266: the jobs from the largest maxdimension to the
\* smallest, each Repeat times, as (Xdim, Ydim, job, rjob)
RECURSIVE SortByMaxDimension(_, _)
SortByMaxDimension(J, names) ==
  IF names = {} THEN << >>
  ELSE LET nm == CHOOSE n \in names :
                   \A o \in names : maxdimension(J[o]) <= maxdimension(J[n])
       IN  << nm >> \o SortByMaxDimension(J, names \ {nm})

\* a variant of PackerList that enters every job once
PackerListOnce(J) ==
  [ i \in DOMAIN SortByMaxDimension(J, DOMAIN J) |->
      LET job == J[SortByMaxDimension(J, DOMAIN J)[i]]
      IN  [Xdim |-> width_in(job), Ydim |-> height_in(job),
           job |-> job.name, rjob |-> job.name] ]

PackerList(J) ==
  Concat([ i \in DOMAIN SortByMaxDimension(J, DOMAIN J) |->
             LET job == J[SortByMaxDimension(J, DOMAIN J)[i]]
             IN  [ c \in 1..job.Repeat |->
                     [Xdim |-> width_in(job), Ydim |-> height_in(job),
                      job |-> job.name, rjob |-> job.name] ] ])

\* the tilings the packer may return for L on a PX x PY panel: the jobs in
\* one row or in one column, all native or all rotated, when they fit
NoTile == << >>

TileOf(L, inRow, rot, cfg) ==
  [ i \in DOMAIN L |->
      LET w(k) == IF rot THEN L[k].Ydim ELSE L[k].Xdim
          h(k) == IF rot THEN L[k].Xdim ELSE L[k].Ydim
          sumw == SumSeq([ k \in 1..(i-1) |-> w(k) + cfg.xspacing ])
          sumh == SumSeq([ k \in 1..(i-1) |-> h(k) + cfg.yspacing ])
      IN  JobLayout(L[i].job, rot, IF inRow THEN sumw ELSE 0,
                    IF inRow THEN 0 ELSE sumh) ]

TileFits(J, R, t, PX, PY, cfg) ==
  /\ extents(J, R, t)[1] + cfg.leftmargin + cfg.rightmargin <= PX
  /\ extents(J, R, t)[2] + cfg.bottommargin + cfg.topmargin <= PY

\* tilesearch1.tile_search1 / tilesearch2.tile_search2: a tiling that fits,
\* or none (the search may also end without one)
PackerOutcomes(J, R, L, PX, PY, cfg) ==
  { NoTile } \cup
  { t \in { TileOf(L, inRow, rot, cfg) : inRow \in BOOLEAN, rot \in BOOLEAN } :
      TileFits(J, R, t, PX, PY, cfg) }

\* a variant of tile_jobs that returns the empty tiling instead of raising
tile_jobsNoRaise(t) == [raised |-> FALSE, tile |-> t]

\* tile_jobs, lines 274-277: no tiling is the panel-too-small error
tile_jobs(t) == [raised |-> (t = NoTile), tile |-> t]

\* Placement.addFromTiling(tile, OriginX + leftmargin, OriginY + bottommargin)
addFromTiling(t, X, Y) ==
  [ i \in DOMAIN t |-> [t[i] EXCEPT !.x = @ + X, !.y = @ + Y] ]

\* what parseLayoutFile may return: all jobs in one row, or one row per job
LayoutInputs(J) ==
  { << [ i \in DOMAIN SetToSeq(DOMAIN J) |-> Entry(SetToSeq(DOMAIN J)[i], FALSE) ] >>,
    [ i \in DOMAIN SetToSeq(DOMAIN J) |-> << Entry(SetToSeq(DOMAIN J)[i], FALSE) >> ] }

\* what the placement file may hold: the jobs side by side from (X0, Y0),
\* native or rotated, near the origin or far to the right
PlacementFileInputs(J, R, cfg) ==
  { RowPositions(J, R,
                 [ i \in DOMAIN SetToSeq(DOMAIN J) |-> Entry(SetToSeq(DOMAIN J)[i], rot) ],
                 X0, Origin + 50, cfg.xspacing) :
      rot \in BOOLEAN, X0 \in { Origin + 50, Origin + 1500 } }

\* which branch of lines 360-385 is taken
PlacementSource(a, cfgmod) ==
  IF Len(a) > 1 THEN "layout"
  ELSE IF cfgmod.AutoSearchType = FROM_FILE THEN "file" ELSE "packer"

(***************************************************************************)
(* The actions of merge.                                                   *)
(***************************************************************************)
NoFiles == [ z \in {} |-> << >> ]

NoCodes == [cut |-> 0, crop |-> 0, fiducial_copper |-> 0,
            fiducial_soldermask |-> 0, one |-> 0]

\* the state at the call of merge, but for the arguments and the input files
NothingLoaded ==
  /\ result = ""
  /\ writeGerberHeader = Header22
  /\ config = InitialConfig
  /\ configRead = FALSE
  /\ LayerList = << >>
  /\ MinimumFeatureDimension = NoMap
  /\ Jobs = NoMap /\ rjobs = NoMap /\ GAMT = NoMap
  /\ GlobalToolMap = NoMap /\ GlobalToolRMap = NoMap
  /\ tile = NoTile /\ Place = << >>
  /\ layerIdx = 0
  /\ apUsedDict = {} /\ apmUsedDict = {}
  /\ Tools = << >>
  /\ OutputFiles = << >>
  /\ files = NoFiles

AtCall ==
  /\ pc = "start"
  /\ NothingLoaded
  /\ Config = BaseConfig /\ GAT = NoMap
  /\ OriginX = 0 /\ OriginY = 0
  /\ MaxXExtent = 0 /\ MaxYExtent = 0
  /\ drawing_code = NoCodes

Raise(what) == pc' = "raised" /\ result' = what

configVars == << Config, LayerList, MinimumFeatureDimension, GAMT >>
toolVars == << GlobalToolMap, GlobalToolRMap, Tools >>
layerVars == << layerIdx, apUsedDict, apmUsedDict >>
extentVars == << OriginX, OriginY, MaxXExtent, MaxYExtent >>
argVars == << opts, args, disk, writeGerberHeader, config, configRead >>

\* lines 280-312
ParseOptions ==
  /\ pc = "start"
  /\ LET st == ParseArguments(opts, args, config)
     IN  /\ writeGerberHeader' = st.header
         /\ config' = st.config
         /\ IF st.error # "" THEN Raise(st.error)
            ELSE pc' = "config" /\ result' = result
  /\ UNCHANGED << opts, args, disk, configRead, configVars, Jobs, rjobs, GAT,
                  toolVars, layerVars, extentVars, tile, Place, drawing_code,
                  OutputFiles, files >>

\* family "tiny": one job, one layer
TinyInputs ==
  { Loaded(BaseConfig, << "*toplayer" >>, NoMap, JobSet({MainJobA}), MainGAT,
           NoMap, NoMap, NoMap) }

\* family "layers": apertures below a layer's minimum feature dimension,
\* macros, cut lines, crop marks and fiducials
LayersGATs ==
  { (10 :> Circle(10)) @@ (11 :> Circle(4)) @@ (12 :> Rectangle(4, 20)) @@
    (13 :> MacroAp(2)),
    (10 :> Circle(10)) @@ (11 :> Circle(4)) @@ (12 :> Rectangle(4, 20)) @@
    (13 :> MacroAp(2)) @@ (14 :> Circle(8)) @@ (15 :> MacroAp(1)) }

LayersGAMT == (1 :> "M1") @@ (2 :> "M2")

LayersJobA ==
  MkJob("a", 1000, 500,
        << Sel(11), XY(100, 100, 3), Sel(12), XY(200, 100, 3),
           Sel(11), XY(300, 100, 3) >>,
        << Sel(11), XY(100, 100, 3), Sel(13), XY(200, 100, 3) >>,
        (1 :> 30), (1 :> << Hit(100, 100) >>), 1)

LayersJobB ==
  MkJob("b", 500, 500,
        << Sel(13), XY(50, 50, 3), Sel(10), XY(60, 60, 3) >>, << >>,
        (1 :> 30), (1 :> << Hit(50, 50) >>), 1)

LayersMinimums ==
  { NoMap, ("*toplayer" :> 8), ("*toplayer" :> 8) @@ ("*topsoldermask" :> 12) }

LayersConfigs ==
  { BaseConfig,
    [BaseConfig EXCEPT !.cutlinelayers = {"*toplayer"},
                       !.cropmarklayers = {"*toplayer", "*topsoldermask"},
                       !.fiducialpoints = << 125, 125, -125, -125 >>] }

LayersInputs ==
  { Loaded(cfg, layers, mfd, JobSet(S), gat, LayersGAMT, NoMap, NoMap) :
      cfg \in LayersConfigs,
      layers \in { << "*toplayer", "*topsoldermask", "centroid" >>,
                   << "centroid", "boardoutline", "*toplayer" >> },
      mfd \in LayersMinimums,
      S \in { {LayersJobA}, {LayersJobA, LayersJobB} },
      gat \in LayersGATs }

\* family "drill": several drill sizes (in 1e-4 inch), with and without a
\* cluster tolerance and a tool list read with the configuration
DrillJobA ==
  MkJob("a", 1000, 500, << Sel(11), XY(100, 100, 3) >>, << >>,
        (1 :> 299) @@ (2 :> 400),
        (1 :> << Hit(100, 100), Hit(200, 100) >>) @@ (2 :> << Hit(300, 100) >>), 1)

DrillJobB ==
  MkJob("b", 500, 500, << Sel(11), XY(50, 50, 3) >>, << >>,
        (1 :> 301) @@ (2 :> 400) @@ (3 :> 500),
        (1 :> << Hit(50, 50) >>) @@ (2 :> << Hit(60, 60) >>) @@ (3 :> << >>), 1)

DrillToolLists ==
  { [rmap |-> NoMap, tmap |-> NoMap],
    [rmap |-> (299 :> 1) @@ (400 :> 2) @@ (600 :> 3),
     tmap |-> (1 :> 299) @@ (2 :> 400) @@ (3 :> 600)] }

DrillInputs ==
  { Loaded([BaseConfig EXCEPT !.drillclustertolerance = tol],
           << "*toplayer" >>, NoMap, JobSet(S), MainGAT, NoMap, tl.rmap, tl.tmap) :
      tol \in { 0, 5 }, S \in { {DrillJobA}, {DrillJobA, DrillJobB} },
      tl \in DrillToolLists }

\* family "norm": jobs whose layer and drill coordinates start left of or
\* below the origin
NormOffsets == { -50, 0, 30 }

NormJob(ox, oy, hx, hy) ==
  [ name |-> "a", minx |-> ox, miny |-> oy, maxx |-> ox + 1000, maxy |-> oy + 500,
    commands |-> ("boardoutline" :> << Sel(10), XY(ox, oy, 2),
                                      XY(ox + 1000, oy + 500, 1) >>) @@
                 ("*toplayer" :> << Sel(11), XY(ox + 100, oy + 100, 3) >>),
    xdiam |-> (1 :> 30), xcommands |-> (1 :> << Hit(hx, hy) >>), Repeat |-> 1 ]

NormInputs ==
  { Loaded(BaseConfig, << "*toplayer", "boardoutline" >>, NoMap, JobSet(S),
           MainGAT, NoMap, NoMap, NoMap) :
      S \in { {NormJob(ox, oy, hx, hy)} : ox \in NormOffsets, oy \in NormOffsets,
                                          hx \in { -80, 40 }, hy \in { -10, 40 } }
           \cup { {NormJob(-50, 30, 40, 40), MainJobB} } }

\* family "pack": jobs of different sizes, panelized one to MaxRepeat times
PackInputs ==
  { Loaded([BaseConfig EXCEPT !.panelwidth = 4000, !.panelheight = 4000],
           << "*toplayer" >>, NoMap, JobSet(S), MainGAT, NoMap, NoMap, NoMap) :
      S \in UNION {
        { { MkJob("a", 1000, 500, << Sel(11), XY(100, 100, 3) >>, << >>,
                  (1 :> 30), (1 :> << Hit(100, 100) >>), ra) } \cup T :
            T \in { {},
                    { MkJob("b", 300, 300, << >>, << >>, NoMap, NoMap, rb) },
                    { MkJob("b", 300, 300, << >>, << >>, NoMap, NoMap, rb),
                      MkJob("c", 400, 1200, << >>, << >>, NoMap, NoMap, 1) } } } :
        ra \in 1..MaxRepeat, rb \in 1..MaxRepeat } }

Inputs(family) ==
  CASE family = "main" -> MainInputs
    [] family = "tiny" -> TinyInputs
    [] family = "layers" -> LayersInputs
    [] family = "drill" -> DrillInputs
    [] family = "norm" -> NormInputs
    [] family = "pack" -> PackInputs

\* line 317: config.parseConfigFile(args[0]) fills Config, Jobs, GAT, GAMT
ParseConfig ==
  /\ pc = "config"
  /\ \E inp \in Inputs(disk) :
       /\ Config' = inp.Config
       /\ LayerList' = inp.LayerList
       /\ MinimumFeatureDimension' = inp.MinimumFeatureDimension
       /\ Jobs' = inp.Jobs
       /\ GAT' = inp.GAT
       /\ GAMT' = inp.GAMT
       /\ GlobalToolRMap' = inp.GlobalToolRMap
       /\ GlobalToolMap' = inp.GlobalToolMap
  /\ configRead' = TRUE
  /\ pc' = "normalize"
  /\ UNCHANGED << result, opts, args, disk, writeGerberHeader, config, rjobs,
                  Tools, layerVars, extentVars, tile, Place, drawing_code,
                  OutputFiles, files >>

\* lines 319-326
Normalize ==
  /\ pc = "normalize"
  /\ Jobs' = [ nm \in DOMAIN Jobs |-> NormalizeJob(Jobs[nm]) ]
  /\ pc' = "trim"
  /\ UNCHANGED << result, argVars, configVars, rjobs, GAT, toolVars, layerVars,
                  extentVars, tile, Place, drawing_code, OutputFiles, files >>

\* lines 339-350
TrimJob(job, cfgmod) ==
  LET e == IF cfgmod.TrimExcellon # 0 THEN trimExcellon(job) ELSE job
  IN  IF cfgmod.TrimGerber # 0 THEN trimGerber(e) ELSE e

\* lines 339-354
Trim ==
  /\ pc = "trim"
  /\ Jobs' = [ nm \in DOMAIN Jobs |-> TrimJob(Jobs[nm], config) ]
  /\ OriginX' = Origin /\ OriginY' = Origin
  /\ pc' = "layout"
  /\ UNCHANGED << result, argVars, configVars, rjobs, GAT, toolVars, layerVars,
                  MaxXExtent, MaxYExtent, tile, Place, drawing_code,
                  OutputFiles, files >>

\* lines 360-385
PerformLayout ==
  /\ pc = "layout"
  /\ rjobs' = [ nm \in DOMAIN Jobs |-> rotateJob(Jobs[nm]) ]
  /\ LET src == PlacementSource(args, config)
         X == OriginX + Config.leftmargin
         Y == OriginY + Config.bottommargin
     IN  IF src = "layout" THEN
           /\ \E Layout \in LayoutInputs(Jobs) :
                Place' = LayoutPositions(Jobs, rjobs', Layout, X, Y, Config)
           /\ pc' = "placed" /\ UNCHANGED << result, tile >>
         ELSE IF src = "file" THEN
           /\ \E p \in PlacementFileInputs(Jobs, rjobs', Config) : Place' = p
           /\ pc' = "placed" /\ UNCHANGED << result, tile >>
         ELSE
           \E t \in PackerOutcomes(Jobs, rjobs', PackerList(Jobs),
                                   Config.panelwidth, Config.panelheight, Config) :
             /\ tile' = t
             /\ IF tile_jobs(t).raised
                THEN /\ Raise("Panel size is too small to hold jobs")
                     /\ Place' = Place
                ELSE /\ Place' = addFromTiling(tile_jobs(t).tile, X, Y)
                     /\ pc' = "placed" /\ result' = result
  /\ UNCHANGED << argVars, configVars, Jobs, GAT, toolVars, layerVars,
                  extentVars, drawing_code, OutputFiles, files >>

FileName(kind, nm) == << kind, nm >>

\* lines 387-401: the extents, then Place.write
WritePlacement ==
  /\ pc = "placed"
  /\ MaxXExtent' = extents(Jobs, rjobs, Place)[1] + Config.rightmargin
  /\ MaxYExtent' = extents(Jobs, rjobs, Place)[2] + Config.topmargin
  /\ files' = (FileName("placement", "") :> PlacementLines(Place)) @@ files
  /\ OutputFiles' = Append(OutputFiles, FileName("placement", ""))
  /\ pc' = "apertures"
  /\ UNCHANGED << result, argVars, configVars, Jobs, rjobs, GAT, toolVars,
                  layerVars, OriginX, OriginY, tile, Place, drawing_code >>

\* a variant of AddAperturesOp without the fabrication drawing aperture
AddAperturesOpNoFab(gat, cfg) ==
  LET cut  == findOrAddAperture(gat, Circle(cfg.cutlinewidth))
      crop == findOrAddAperture(cut[1], Circle(cfg.cropmarkwidth))
      fc   == IF cfg.fiducialpoints # << >>
              THEN findOrAddAperture(crop[1], Circle(cfg.fiducialcopperdiameter))
              ELSE << crop[1], 0 >>
      fm   == IF cfg.fiducialpoints # << >>
              THEN findOrAddAperture(fc[1], Circle(cfg.fiducialmaskdiameter))
              ELSE << fc[1], 0 >>
  IN  [ gat |-> fm[1],
        codes |-> [cut |-> cut[2], crop |-> crop[2], fiducial_copper |-> fc[2],
                   fiducial_soldermask |-> fm[2], one |-> 0] ]

\* lines 403-431: the apertures of the cut lines, the crop marks, the
\* fiducials and the fabrication drawing, each found in GAT or added to it
AddAperturesOp(gat, cfg) ==
  LET cut  == findOrAddAperture(gat, Circle(cfg.cutlinewidth))
      crop == findOrAddAperture(cut[1], Circle(cfg.cropmarkwidth))
      fc   == IF cfg.fiducialpoints # << >>
              THEN findOrAddAperture(crop[1], Circle(cfg.fiducialcopperdiameter))
              ELSE << crop[1], 0 >>
      fm   == IF cfg.fiducialpoints # << >>
              THEN findOrAddAperture(fc[1], Circle(cfg.fiducialmaskdiameter))
              ELSE << fc[1], 0 >>
      one  == findOrAddAperture(fm[1], Circle(1))
  IN  [ gat |-> one[1],
        codes |-> [cut |-> cut[2], crop |-> crop[2], fiducial_copper |-> fc[2],
                   fiducial_soldermask |-> fm[2], one |-> one[2]] ]

\* where the layer loop of line 436 stands after idx - 1 layers
LoopPc(layers, idx) == IF idx > Len(layers) THEN "outline" ELSE "layer"

AddApertures ==
  /\ pc = "apertures"
  /\ GAT' = AddAperturesOp(GAT, Config).gat
  /\ drawing_code' = AddAperturesOp(GAT, Config).codes
  /\ layerIdx' = 1
  /\ pc' = LoopPc(LayerList, 1)
  /\ UNCHANGED << result, argVars, configVars, Jobs, rjobs, toolVars,
                  apUsedDict, apmUsedDict, extentVars, tile, Place,
                  OutputFiles, files >>

(***************************************************************************)
(* The layer loop, lines 436-533.                                          *)
(***************************************************************************)
KeyOrders(S) == { f \in [1..Cardinality(S) -> S] : Range(f) = S }

\* lines 477-486: the old aperture replaced by the new one in the layer's
\* stream of a job
ReplaceInJob(job, layername, ap, new_code) ==
  IF hasLayer(job, layername)
  THEN [ job EXCEPT !.commands[layername] =
           [ i \in DOMAIN job.commands[layername] |->
               IF IsSel(job.commands[layername][i])
                  /\ job.commands[layername][i].ap = ap
               THEN Sel(new_code)
               ELSE job.commands[layername][i] ] ]
  ELSE job

Placed(place, rot) ==
  { place[i].name : i \in { k \in DOMAIN place : place[k].rotated = rot } }

Thickening(gat, J, R, used) == [gat |-> gat, J |-> J, R |-> R, used |-> used]

\* a variant of ThickenStep without 'del apUsedDict[ap]'
ThickenStepKeepsOld(st, ap, minimum, layername, place) ==
  LET new == getAdjusted(st.gat[ap], minimum)
  IN  IF new = NoAperture THEN st
      ELSE LET fo == findOrAddAperture(st.gat, new)
           IN  Thickening(fo[1],
                 [ nm \in DOMAIN st.J |->
                     IF nm \in Placed(place, FALSE)
                     THEN ReplaceInJob(st.J[nm], layername, ap, fo[2])
                     ELSE st.J[nm] ],
                 [ nm \in DOMAIN st.R |->
                     IF nm \in Placed(place, TRUE)
                     THEN ReplaceInJob(st.R[nm], layername, ap, fo[2])
                     ELSE st.R[nm] ],
                 st.used \cup { fo[2] })

\* lines 468-486: one aperture of the layer
ThickenStep(st, ap, minimum, layername, place) ==
  LET new == getAdjusted(st.gat[ap], minimum)
  IN  IF new = NoAperture THEN st
      ELSE LET fo == findOrAddAperture(st.gat, new)
           IN  Thickening(fo[1],
                 [ nm \in DOMAIN st.J |->
                     IF nm \in Placed(place, FALSE)
                     THEN ReplaceInJob(st.J[nm], layername, ap, fo[2])
                     ELSE st.J[nm] ],
                 [ nm \in DOMAIN st.R |->
                     IF nm \in Placed(place, TRUE)
                     THEN ReplaceInJob(st.R[nm], layername, ap, fo[2])
                     ELSE st.R[nm] ],
                 (st.used \ { ap }) \cup { fo[2] })

\* lines 467-486: the apertures in the order of apUsedDict.keys()
RECURSIVE ThickenLoop(_, _, _, _, _)
ThickenLoop(st, keys, minimum, layername, place) ==
  IF keys = << >> THEN st
  ELSE ThickenLoop(ThickenStep(st, Head(keys), minimum, layername, place),
                   Tail(keys), minimum, layername, place)

LayerFile(layername) == FileName("layer", layername)

\* lines 436-459: the next layer; its file is opened, the header written and
\* the apertures and macros of the placed jobs collected
LayerOpen ==
  /\ pc = "layer"
  /\ LET layername == LayerList[layerIdx]
     IN  IF layername = "centroid"
         THEN /\ layerIdx' = layerIdx + 1
              /\ pc' = LoopPc(LayerList, layerIdx + 1)
              /\ UNCHANGED << apUsedDict, apmUsedDict, OutputFiles, files >>
         ELSE /\ OutputFiles' = Append(OutputFiles, LayerFile(layername))
              /\ files' = (LayerFile(layername) :>
                             CallGerberHeader(writeGerberHeader, << >>)) @@ files
              /\ apUsedDict' =
                   UNION { aperturesAndMacros(GAT, JobOf(Jobs, rjobs, Place[i]),
                                              layername)[1] : i \in DOMAIN Place }
              /\ apmUsedDict' =
                   UNION { aperturesAndMacros(GAT, JobOf(Jobs, rjobs, Place[i]),
                                              layername)[2] : i \in DOMAIN Place }
              /\ pc' = "thicken"
              /\ layerIdx' = layerIdx
  /\ UNCHANGED << result, argVars, configVars, Jobs, rjobs, GAT, toolVars,
                  extentVars, tile, Place, drawing_code >>

\* lines 461-486
Thicken ==
  /\ pc = "thicken"
  /\ LET layername == LayerList[layerIdx]
     IN  IF layername \in DOMAIN MinimumFeatureDimension
         THEN \E keys \in KeyOrders(apUsedDict) :
                LET st == ThickenLoop(Thickening(GAT, Jobs, rjobs, apUsedDict),
                                      keys, MinimumFeatureDimension[layername],
                                      layername, Place)
                IN  /\ GAT' = st.gat /\ Jobs' = st.J /\ rjobs' = st.R
                    /\ apUsedDict' = st.used
         ELSE UNCHANGED << GAT, Jobs, rjobs, apUsedDict >>
  /\ pc' = "emit"
  /\ UNCHANGED << result, argVars, configVars, toolVars, layerIdx, apmUsedDict,
                  extentVars, tile, Place, drawing_code, OutputFiles, files >>

IsCopper(layername) == layername \in { "*toplayer", "*bottomlayer" }

IsSoldermask(layername) == layername \in { "*topsoldermask", "*bottomsoldermask" }

IsCutLayer(cfg, layername) ==
  cfg.cutlinelayers # {} /\ layername \in cfg.cutlinelayers

IsCropLayer(cfg, layername) ==
  cfg.cropmarklayers # {} /\ layername \in cfg.cropmarklayers

\* a variant of UsedWithDrawing without the crop mark aperture
UsedWithDrawingNoCrop(used, cfg, codes, layername) ==
  used
  \cup (IF IsCutLayer(cfg, layername) THEN { codes.cut } ELSE {})
  \cup (IF cfg.fiducialpoints # << >> /\ IsCopper(layername)
        THEN { codes.fiducial_copper } ELSE {})
  \cup (IF cfg.fiducialpoints # << >> /\ ~ IsCopper(layername)
           /\ IsSoldermask(layername)
        THEN { codes.fiducial_soldermask } ELSE {})

\* lines 488-498: the merger's own apertures join the used ones
UsedWithDrawing(used, cfg, codes, layername) ==
  used
  \cup (IF IsCutLayer(cfg, layername) THEN { codes.cut } ELSE {})
  \cup (IF IsCropLayer(cfg, layername) THEN { codes.crop } ELSE {})
  \cup (IF cfg.fiducialpoints # << >> /\ IsCopper(layername)
        THEN { codes.fiducial_copper } ELSE {})
  \cup (IF cfg.fiducialpoints # << >> /\ ~ IsCopper(layername)
           /\ IsSoldermask(layername)
        THEN { codes.fiducial_soldermask } ELSE {})

\* a variant of JobsBody that writes all streams, then all cut lines
JobsBodyCutsLast(fid, J, R, place, idx, layername, cutcode) ==
  fid
  \o Concat([ i \in DOMAIN place |->
                GerberLines(JobOf(J, R, place[i]), place[i], layername, i) ])
  \o Concat([ i \in DOMAIN place |->
                IF cutcode # 0
                THEN << Line("select", "", cutcode, 0, 0, 0, "cut", i) >>
                     \o CutLines(JobOf(J, R, place[i]), place[i], i)
                ELSE << >> ])

\* lines 513-520: every placed job, each followed by its cut lines
RECURSIVE JobsBody(_, _, _, _, _, _, _)
JobsBody(fid, J, R, place, idx, layername, cutcode) ==
  IF idx > Len(place) THEN fid
  ELSE LET job == JobOf(J, R, place[idx])
           written == fid \o GerberLines(job, place[idx], layername, idx)
       IN  JobsBody(IF cutcode # 0
                    THEN Append(written,
                                Line("select", "", cutcode, 0, 0, 0, "cut", idx))
                         \o CutLines(job, place[idx], idx)
                    ELSE written,
                    J, R, place, idx + 1, layername, cutcode)

\* lines 500-532: the definitions, the jobs, the crop marks, the fiducials
\* and the footer, appended to the opened file fid
LayerBody(fid, gat, gamt, used, usedm, J, R, place, cfg, codes, layername, OX, OY, MX, MY) ==
  LET defs   == writeApertures(writeApertureMacros(fid, gamt, usedm), gat, used)
      body   == JobsBody(defs, J, R, place, 1, layername,
                         IF IsCutLayer(cfg, layername) THEN codes.cut ELSE 0)
      crop   == IF IsCropLayer(cfg, layername)
                THEN writeCropMarks(body, gat, codes.crop, OX, OY, MX, MY)
                ELSE body
      fidu   == IF cfg.fiducialpoints # << >> /\ IsCopper(layername)
                THEN writeFiducials(crop, cfg.fiducialpoints,
                                    codes.fiducial_copper, OX, OY, MX, MY)
                ELSE IF cfg.fiducialpoints # << >> /\ IsSoldermask(layername)
                THEN writeFiducials(crop, cfg.fiducialpoints,
                                    codes.fiducial_soldermask, OX, OY, MX, MY)
                ELSE crop
  IN  writeGerberFooter(fidu)

\* lines 488-533
LayerEmit ==
  /\ pc = "emit"
  /\ LET layername == LayerList[layerIdx]
         used == UsedWithDrawing(apUsedDict, Config, drawing_code, layername)
     IN  /\ apUsedDict' = used
         /\ files' = [ files EXCEPT ![LayerFile(layername)] =
                         LayerBody(@, GAT, GAMT, used, apmUsedDict, Jobs, rjobs,
                                   Place, Config, drawing_code, layername,
                                   OriginX, OriginY, MaxXExtent, MaxYExtent) ]
  /\ layerIdx' = layerIdx + 1
  /\ pc' = LoopPc(LayerList, layerIdx + 1)
  /\ UNCHANGED << result, argVars, configVars, Jobs, rjobs, GAT, toolVars,
                  apmUsedDict, extentVars, tile, Place, drawing_code,
                  OutputFiles >>

(***************************************************************************)
(* The outline and the scoring files, lines 535-579.                       *)
(***************************************************************************)
\* "fullname and fullname.lower() != 'none'"
FileWanted(fullname) == fullname # "" /\ fullname \notin { "none", "None", "NONE" }

OutlineLine(px, py, op) == Line("xy", "", 0, in2gerb(px), in2gerb(py), op, "", 0)

\* lines 541-557
OutlineLines(h, OX, OY, MX, MY) ==
  writeGerberFooter(
    (Append(CallGerberHeader(h, << >>), ApDefLine(10, Circle(1))) \o
     << Line("select", "", 10, 0, 0, 0, "", 0),
        OutlineLine(OX, OY, 2), OutlineLine(OX, MY, 1), OutlineLine(MX, MY, 1),
        OutlineLine(MX, OY, 1), OutlineLine(OX, OY, 1) >>))

WriteOutline ==
  /\ pc = "outline"
  /\ IF FileWanted(Config.outlinelayerfile)
     THEN /\ OutputFiles' = Append(OutputFiles, FileName("outline", Config.outlinelayerfile))
          /\ files' = (FileName("outline", Config.outlinelayerfile) :>
                         OutlineLines(writeGerberHeader, OriginX, OriginY,
                                      MaxXExtent, MaxYExtent)) @@ files
     ELSE UNCHANGED << OutputFiles, files >>
  /\ pc' = "scoring"
  /\ UNCHANGED << result, argVars, configVars, Jobs, rjobs, GAT, toolVars,
                  layerVars, extentVars, tile, Place, drawing_code >>

\* lines 565-578; scoring.writeScoring's lines are one line per placed job
ScoringLines(h, place) ==
  writeGerberFooter(
    (Append(CallGerberHeader(h, << >>), ApDefLine(10, Circle(1))) \o
     << Line("select", "", 10, 0, 0, 0, "", 0) >> \o
     [ i \in DOMAIN place |->
         Line("score", place[i].name, 0, in2gerb(place[i].x),
              in2gerb(place[i].y), 0, "", i) ]))

WriteScoring ==
  /\ pc = "scoring"
  /\ IF FileWanted(Config.scoringfile)
     THEN /\ OutputFiles' = Append(OutputFiles, FileName("scoring", Config.scoringfile))
          /\ files' = (FileName("scoring", Config.scoringfile) :>
                         ScoringLines(writeGerberHeader, Place)) @@ files
     ELSE UNCHANGED << OutputFiles, files >>
  /\ pc' = "tools"
  /\ UNCHANGED << result, argVars, configVars, Jobs, rjobs, GAT, toolVars,
                  layerVars, extentVars, tile, Place, drawing_code >>

(***************************************************************************)
(* The global tool tables, lines 592-614.                                  *)
(***************************************************************************)
\* the diameters in the order in which the two loops of lines 595-596 may
\* visit them: the jobs in some order, the tools of each job in some order
VisitOrders(J) ==
  { Concat([ i \in DOMAIN jobOrder |->
               [ k \in DOMAIN itemOrder[jobOrder[i]] |->
                   J[jobOrder[i]].xdiam[itemOrder[jobOrder[i]][k]] ] ]) :
      jobOrder \in KeyOrders(DOMAIN J),
      itemOrder \in { f \in [ DOMAIN J ->
                               UNION { KeyOrders(DOMAIN J[n].xdiam) : n \in DOMAIN J } ] :
                        \A n \in DOMAIN J : f[n] \in KeyOrders(DOMAIN J[n].xdiam) } }

\* lines 592-601: a diameter not yet in GlobalToolRMap gets the next number
RECURSIVE ToolLoop(_, _, _)
ToolLoop(rmap, toolNum, diams) ==
  IF diams = << >> THEN rmap
  ELSE IF Head(diams) \in DOMAIN rmap THEN ToolLoop(rmap, toolNum, Tail(diams))
  ELSE ToolLoop((Head(diams) :> (toolNum + 1)) @@ rmap, toolNum + 1, Tail(diams))

\* drillcluster.cluster: the representative of a diameter is the largest
\* diameter within the tolerance of the anchor of its window, the windows
\* being swept from the smallest diameter up
RECURSIVE ClusterRep(_, _, _)
ClusterRep(diams, tolerance, d) ==
  LET anchor == Min(diams)
      window == { e \in diams : e - anchor <= tolerance }
  IN  IF d \in window THEN Max(window)
      ELSE ClusterRep(diams \ window, tolerance, d)

cluster(rmap, tolerance) ==
  LET reps == { ClusterRep(DOMAIN rmap, tolerance, d) : d \in DOMAIN rmap }
  IN  [ d \in reps |-> rmap[d] ]

\* drillcluster.remap: the placed jobs drill with the representatives
RemapJob(job, diams, tolerance) ==
  [ job EXCEPT !.xdiam = [ t \in DOMAIN job.xdiam |->
                             IF job.xdiam[t] \in diams
                             THEN ClusterRep(diams, tolerance, job.xdiam[t])
                             ELSE job.xdiam[t] ] ]

\* lines 609-610: GlobalToolMap[tool] = diam for the items of GlobalToolRMap;
\* of two diameters under one tool name the last one visited stays
ToolMapsOf(tmap, rmap) ==
  { g @@ tmap : g \in { f \in [ Range(rmap) -> DOMAIN rmap ] :
                          \A t \in Range(rmap) : rmap[f[t]] = t } }

\* lines 592-614
BuildToolTables ==
  /\ pc = "tools"
  /\ \E diams \in VisitOrders(Jobs) :
       LET built == ToolLoop(GlobalToolRMap, 0, diams)
           tol   == Config.drillclustertolerance
           rmap  == IF tol > 0 THEN cluster(built, tol) ELSE built
       IN  /\ GlobalToolRMap' = rmap
           /\ IF tol > 0
              THEN /\ Jobs' = [ nm \in DOMAIN Jobs |->
                                  IF nm \in Placed(Place, FALSE)
                                  THEN RemapJob(Jobs[nm], DOMAIN built, tol)
                                  ELSE Jobs[nm] ]
                   /\ rjobs' = [ nm \in DOMAIN rjobs |->
                                   IF nm \in Placed(Place, TRUE)
                                   THEN RemapJob(rjobs[nm], DOMAIN built, tol)
                                   ELSE rjobs[nm] ]
              ELSE UNCHANGED << Jobs, rjobs >>
           /\ \E tmap \in ToolMapsOf(GlobalToolMap, rmap) :
                /\ GlobalToolMap' = tmap
                /\ Tools' = SortedSeq(DOMAIN tmap)
  /\ pc' = "fab"
  /\ UNCHANGED << result, argVars, configVars, GAT, layerVars, extentVars,
                  tile, Place, drawing_code, OutputFiles, files >>

\* strokes.MaxNumDrillTools, scaled down to the model's tool counts
MaxNumDrillTools == 2

\* lines 623-631; fabdrawing.writeFabDrawing's lines are one line per tool
FabLines(h, gat, code, tools) ==
  writeGerberFooter(
    Append(writeApertures(CallGerberHeader(h, << >>), gat, { code }),
           Line("select", "", code, 0, 0, 0, "", 0)) \o
    [ i \in DOMAIN tools |-> Line("fab", "", tools[i], 0, 0, 0, "", i) ])

\* lines 616-631
WriteFabDrawing ==
  /\ pc = "fab"
  /\ IF FileWanted(Config.fabricationdrawingfile)
     THEN IF Len(Tools) > MaxNumDrillTools
          THEN /\ Raise("Only MaxNumDrillTools different tool sizes supported for fabrication drawing.")
               /\ UNCHANGED << OutputFiles, files >>
          ELSE /\ OutputFiles' = Append(OutputFiles,
                                        FileName("fab", Config.fabricationdrawingfile))
               /\ files' = (FileName("fab", Config.fabricationdrawingfile) :>
                              FabLines(writeGerberHeader, GAT, drawing_code.one, Tools))
                           @@ files
               /\ pc' = "drill" /\ result' = result
     ELSE /\ pc' = "drill" /\ result' = result
          /\ UNCHANGED << OutputFiles, files >>
  /\ UNCHANGED << argVars, configVars, Jobs, rjobs, GAT, toolVars, layerVars,
                  extentVars, tile, Place, drawing_code >>

\* lines 656-657: the hits of every placed job for one diameter
JobsExcellon(J, R, place, size) ==
  Concat([ i \in DOMAIN place |->
             ExcellonLines(JobOf(J, R, place[i]), place[i], size, i) ])

\* a variant of ToolBlock that writes the definition without the hits
ToolBlockDefinitionOnly(fid, tmap, J, R, place, tool) ==
  writeExcellonTool(fid, tool, tmap[tool])

\* lines 646-657 for one tool: its definition, then its hits
ToolBlock(fid, tmap, J, R, place, tool) ==
  writeExcellonTool(fid, tool, tmap[tool]) \o JobsExcellon(J, R, place, tmap[tool])

\* lines 646-657
RECURSIVE DrillBody(_, _, _, _, _, _)
DrillBody(fid, tmap, J, R, place, tools) ==
  IF tools = << >> THEN fid
  ELSE DrillBody(ToolBlock(fid, tmap, J, R, place, Head(tools)),
                 tmap, J, R, place, Tail(tools))

\* lines 633-660
WriteDrills ==
  /\ pc = "drill"
  /\ OutputFiles' = Append(OutputFiles, FileName("drills", ""))
  /\ IF \E i \in DOMAIN Tools : Tools[i] \notin DOMAIN GlobalToolMap
     THEN /\ files' = (FileName("drills", "") :> writeExcellonHeader(<< >>)) @@ files
          /\ Raise("INTERNAL ERROR: Tool code not found in global tool map")
     ELSE /\ files' = (FileName("drills", "") :>
                         writeExcellonFooter(
                           DrillBody(writeExcellonHeader(<< >>), GlobalToolMap,
                                     Jobs, rjobs, Place, Tools))) @@ files
          /\ pc' = "centroid" /\ result' = result
  /\ UNCHANGED << argVars, configVars, Jobs, rjobs, GAT, toolVars, layerVars,
                  extentVars, tile, Place, drawing_code >>

\* lines 662-673; the rows of config.CentroidPartMap are one row per placed job
CentroidLines(place) ==
  << Line("csvheader", "RefDes,Layer,LocationX,LocationY,Rotation", 0, 0, 0, 0, "", 0) >>
  \o [ i \in DOMAIN place |-> Line("csvrow", place[i].name, 0, 0, 0, 0, "", i) ]

WriteCentroid ==
  /\ pc = "centroid"
  /\ OutputFiles' = Append(OutputFiles, FileName("centroid", ""))
  /\ files' = (FileName("centroid", "") :> CentroidLines(Place)) @@ files
  /\ pc' = "toollist"
  /\ UNCHANGED << result, argVars, configVars, Jobs, rjobs, GAT, toolVars,
                  layerVars, extentVars, tile, Place, drawing_code >>

\* lines 687-698
ToolStats(tmap, J, R, place, tool) ==
  SumSeq([ i \in DOMAIN place |-> drillhits(JobOf(J, R, place[i]), tmap[tool]) ])

\* lines 717-721: the tools that have hits
ToolListLines(tmap, J, R, place, tools) ==
  LET hit == SelectSeq(tools, LAMBDA t : ToolStats(tmap, J, R, place, t) # 0)
  IN  [ i \in DOMAIN hit |-> Line("tool", "", hit[i], tmap[hit[i]], 0, 0, "", 0) ]

\* lines 678-729
WriteToolList ==
  /\ pc = "toollist"
  /\ OutputFiles' = Append(OutputFiles, FileName("toollist", ""))
  /\ files' = (FileName("toollist", "") :>
                 ToolListLines(GlobalToolMap, Jobs, rjobs, Place, Tools)) @@ files
  /\ pc' = "check"
  /\ UNCHANGED << result, argVars, configVars, Jobs, rjobs, GAT, toolVars,
                  layerVars, extentVars, tile, Place, drawing_code >>

\* a variant of ExceedsPanel that compares the width only
ExceedsPanelWidthOnly(MX, MY, OX, OY, cfg) == (MX - OX) > cfg.panelwidth

\* line 731
ExceedsPanel(MX, MY, OX, OY, cfg) ==
  (MX - OX) > cfg.panelwidth \/ (MY - OY) > cfg.panelheight

\* lines 731-740
CheckPanel ==
  /\ pc = "check"
  /\ pc' = "done"
  /\ result' = IF ExceedsPanel(MaxXExtent, MaxYExtent, OriginX, OriginY, Config)
               THEN "sys.exit(1)" ELSE "return 0"
  /\ UNCHANGED << argVars, configVars, Jobs, rjobs, GAT, toolVars, layerVars,
                  extentVars, tile, Place, drawing_code, OutputFiles, files >>

Next ==
  \/ ParseOptions \/ ParseConfig \/ Normalize \/ Trim \/ PerformLayout
  \/ WritePlacement \/ AddApertures \/ LayerOpen \/ Thicken \/ LayerEmit
  \/ WriteOutline \/ WriteScoring \/ BuildToolTables \/ WriteFabDrawing
  \/ WriteDrills \/ WriteCentroid \/ WriteToolList \/ CheckPanel

(***************************************************************************)
(* Spec: merge on the "main" input family, with the options that choose    *)
(* the placement source and with or without a layout file.                 *)
(***************************************************************************)
MainOptions ==
  { << >>, << Opt("--full-search", "") >>, << Opt("--place-file", "place.txt") >>,
    << Opt("--octagons", "rotate") >>,
    << Opt("--no-trim-gerber", ""), Opt("--no-trim-excellon", "") >> }

Init ==
  /\ AtCall
  /\ disk = "main"
  /\ opts \in MainOptions
  /\ args \in { << "merge.cfg" >>, << "merge.cfg", "layout.def" >> }

Spec == Init /\ [][Next]_vars

(***************************************************************************)
(* Properties of Spec.                                                     *)
(***************************************************************************)
AutomaticPlacement == Len(args) = 1 /\ config.AutoSearchType # FROM_FILE

NothingWritten == OutputFiles = << >> /\ DOMAIN files = {}

\* C1: in automatic placement mode (no layout file, no placement file), a
\* packer that returns no tiling makes tile_jobs fail with the
\* panel-too-small error; merge then has no Placement and has written no
\* output file, and it does nothing more.
C1_NoTilingIsPanelTooSmall ==
  [][ /\ (pc = "layout" /\ AutomaticPlacement /\ tile' = NoTile)
         => /\ pc' = "raised"
            /\ result' = "Panel size is too small to hold jobs"
            /\ Place' = << >>
            /\ OutputFiles' = << >> /\ DOMAIN files' = {}
      /\ pc = "raised" => UNCHANGED << Place, OutputFiles, files >> ]_vars

C1_Witness ==
  /\ pc = "raised" /\ result = "Panel size is too small to hold jobs"
  /\ AutomaticPlacement /\ tile = NoTile /\ configRead
  /\ config.AutoSearchType = EXHAUSTIVE_SEARCH

\* C2 (as claimed): whenever merge ends in an error, no output file has been
\* written.
C2_ErrorsLeaveNoFiles ==
  (pc \in { "raised", "done" } /\ result # "return 0") => NothingWritten

PlacedWithinPanel ==
  /\ (extents(Jobs, rjobs, Place)[1] + Config.rightmargin) - Origin
       <= Config.panelwidth
  /\ (extents(Jobs, rjobs, Place)[2] + Config.topmargin) - Origin
       <= Config.panelheight

\* C3: whatever the placement source, merge returns 0 only if the placed
\* extent (Placement.extents() plus the right and top margins, less the
\* origin) lies within panelwidth x panelheight; a run that gets to the end
\* with a larger extent ends with exit status 1.
C3_SuccessOnlyWithinPanel ==
  /\ result = "return 0" => (Place # << >> /\ PlacedWithinPanel)
  /\ (pc = "done" /\ ~ PlacedWithinPanel) => result = "sys.exit(1)"
  /\ pc = "done" =>
       /\ MaxXExtent = extents(Jobs, rjobs, Place)[1] + Config.rightmargin
       /\ MaxYExtent = extents(Jobs, rjobs, Place)[2] + Config.topmargin

C3_Witness ==
  /\ pc = "done" /\ result = "sys.exit(1)"
  /\ PlacementSource(args, config) = "file"
  /\ (MaxXExtent - OriginX) <= Config.panelwidth
  /\ (MaxYExtent - OriginY) > Config.panelheight

PlaceFileGiven == \E i \in DOMAIN opts : opts[i].opt = "--place-file"

\* C5 (as claimed): with --place-file the packer is not called and a layout
\* file given as well is ignored: the Placement is the one addFromFile builds
\* from the placement file.
C5_PlaceFileWins ==
  (PlaceFileGiven /\ pc = "placed")
    => /\ Place \in PlacementFileInputs(Jobs, rjobs, Config)
       /\ tile = NoTile

(***************************************************************************)
(* SpecOpts: merge called with every option list of up to MaxOpts options  *)
(* and with zero to three positional arguments, on the "tiny" family.      *)
(***************************************************************************)
AllOptions ==
  { Opt("--octagons", "rotate"), Opt("--octagons", "normal"),
    Opt("--octagons", "square"), Opt("--random-search", ""),
    Opt("--full-search", ""), Opt("--rs-fsjobs", "3"), Opt("--rs-fsjobs", "x"),
    Opt("--search-timeout", "3"), Opt("--place-file", "place.txt"),
    Opt("--no-trim-gerber", ""), Opt("--no-trim-excellon", ""),
    Opt("--help", ""), Opt("--version", "") }

InitOpts ==
  /\ AtCall
  /\ disk = "tiny"
  /\ opts \in SeqsUpTo(AllOptions, MaxOpts)
  /\ args \in { << >>, << "merge.cfg" >>, << "merge.cfg", "layout.def" >>,
                << "merge.cfg", "layout.def", "extra" >> }

SpecOpts == InitOpts /\ [][Next]_vars

MergeOptions ==
  { "--octagons", "--random-search", "--full-search", "--rs-fsjobs",
    "--search-timeout", "--place-file", "--no-trim-gerber", "--no-trim-excellon" }

ArgumentErrors ==
  { "Unknown option", "Unknown octagon format", "Invalid number of arguments",
    "ValueError" }

Rejected ==
  \/ \E i \in DOMAIN opts : opts[i].opt \notin MergeOptions
  \/ \E i \in DOMAIN opts :
       opts[i].opt = "--octagons" /\ opts[i].arg \notin { "rotate", "normal" }
  \/ Len(args) \notin { 1, 2 }

\* the header the last --octagons option asks for, 22.5 degrees without one
SelectedHeader ==
  LET octs == { i \in DOMAIN opts : opts[i].opt = "--octagons" }
  IN  IF octs # {} /\ opts[Max(octs)].arg = "rotate" THEN Header0 ELSE Header22

\* C10: an option outside merge's set, an --octagons value other than
\* rotate or normal, and a positional argument count other than 1 or 2 are
\* each rejected with an error before the configuration file is read or a
\* job is loaded; with valid arguments --octagons=rotate selects the
\* 0.0-degree header, --octagons=normal or no --octagons option the
\* 22.5-degree header, and that header opens every layer file.
C10_ArgumentsRejectedBeforeConfig ==
  /\ (pc # "start" /\ Rejected)
       => /\ pc = "raised" /\ result \in ArgumentErrors
          /\ ~ configRead /\ Jobs = NoMap /\ LayerList = << >>
          /\ OutputFiles = << >> /\ DOMAIN files = {}
  /\ (pc # "start" /\ result \notin ArgumentErrors)
       => /\ ~ Rejected
          /\ writeGerberHeader = SelectedHeader
          /\ \A f \in DOMAIN files :
               f[1] = "layer" =>
                 (files[f][1].k = "header" /\ files[f][1].n = SelectedHeader)

C10_Witness ==
  /\ pc = "raised" /\ result = "Unknown option" /\ ~ configRead
  /\ Len(opts) = 2 /\ opts[1] = Opt("--octagons", "rotate")
  /\ opts[2].opt = "--help" /\ Len(args) = 1

(***************************************************************************)
(* SpecFid: writeFiducials as a function of its arguments and of           *)
(* config.Config['fiducialpoints'].                                        *)
(***************************************************************************)
FidCoords == { -125, 0, 125 }

FidLists == UNION { [1..(2*n) -> FidCoords] : n \in 1..MaxFiducials }

FidFile == FileName("fiducials", "")

InitFid ==
  /\ pc = "fiducials"
  /\ NothingLoaded
  /\ disk = "fid" /\ opts = << >> /\ args = << >>
  /\ GAT = (10 :> Circle(40))
  /\ drawing_code = [NoCodes EXCEPT !.fiducial_copper = 10]
  /\ OriginX \in { 0, 100, 200 } /\ OriginY \in { 0, 100, 200 }
  /\ MaxXExtent \in { 1100, 5100 } /\ MaxYExtent \in { 1100, 5100 }
  /\ \E fl \in FidLists : Config = [BaseConfig EXCEPT !.fiducialpoints = fl]

\* the call of line 528
CallWriteFiducials ==
  /\ pc = "fiducials"
  /\ files' = (FidFile :>
                 writeFiducials(<< >>, Config.fiducialpoints,
                                drawing_code.fiducial_copper,
                                OriginX, OriginY, MaxXExtent, MaxYExtent)) @@ files
  /\ pc' = "done"
  /\ UNCHANGED << result, argVars, configVars, Jobs, rjobs, GAT, toolVars,
                  layerVars, extentVars, tile, Place, drawing_code, OutputFiles >>

NextFid == CallWriteFiducials

SpecFid == InitFid /\ [][NextFid]_vars

\* a point anchored at the lower-left corner for a non-negative coordinate
\* and at the upper-right corner for a negative one
FiducialAt(px, py, OX, OY, MX, MY) ==
  << IF px >= 0 THEN OX + px ELSE MX + px,
     IF py >= 0 THEN OY + py ELSE MY + py >>

\* C4 (as claimed): after the select of the fiducial aperture, exactly one
\* flash per (x, y) pair of fiducialpoints; a non-negative x is placed at
\* OriginX + x, a negative x at MaxXExtent + x, a non-negative y at
\* OriginY + y and a negative y at MaxYExtent + y.
C4_FiducialsAnchoredAtCorners ==
  (pc = "done" /\ FidFile \in DOMAIN files) =>
    LET fl == Config.fiducialpoints
        out == files[FidFile]
    IN  /\ Len(out) = 1 + Len(fl) \div 2
        /\ out[1].k = "select" /\ out[1].n = drawing_code.fiducial_copper
        /\ \A i \in 1..(Len(fl) \div 2) :
             LET at == FiducialAt(fl[2*i - 1], fl[2*i], OriginX, OriginY,
                                  MaxXExtent, MaxYExtent)
             IN  /\ out[i + 1].k = "xy" /\ out[i + 1].d = 3
                 /\ out[i + 1].x = in2gerb(at[1])
                 /\ out[i + 1].y = in2gerb(at[2])

(***************************************************************************)
(* SpecLayers: merge on the "layers" family.                               *)
(***************************************************************************)
InitLayers ==
  /\ AtCall
  /\ disk = "layers"
  /\ opts \in { << >>, << Opt("--octagons", "rotate") >> }
  /\ args \in { << "merge.cfg" >>, << "merge.cfg", "layout.def" >> }

SpecLayers == InitLayers /\ [][Next]_vars

\* the apertures selected in a command stream
Selected(stream) == { stream[i].ap : i \in { k \in DOMAIN stream : IsSel(stream[k]) } }

\* C6: the thickening step of a layer L that has a minimum feature dimension
\* m removes from the used set every used aperture that getAdjusted(m)
\* replaces and adds the code find-or-add gives the replacement; it rewrites
\* every select of such an aperture in the L stream of every placed job;
\* it leaves apertures that meet m in the used set and in the streams; and
\* it changes no stream of any other layer of any job.
C6_ThickeningReplacesInLayerOnly ==
  [][ (pc = "thicken" /\ LayerList[layerIdx] \in DOMAIN MinimumFeatureDimension)
      => LET L == LayerList[layerIdx]
             m == MinimumFeatureDimension[L]
             adj(a) == getAdjusted(GAT[a], m)
             code(a) == findInApertureTable(GAT', adj(a))
         IN  /\ pc' = "emit"
             /\ \A c \in DOMAIN GAT : c \in DOMAIN GAT' /\ GAT'[c] = GAT[c]
             /\ \A a \in apUsedDict :
                  IF adj(a) # NoAperture
                  THEN /\ a \notin apUsedDict'
                       /\ code(a) # 0 /\ code(a) \in apUsedDict'
                  ELSE a \in apUsedDict'
             /\ apUsedDict' =
                  { a \in apUsedDict : adj(a) = NoAperture } \cup
                  { code(a) : a \in { b \in apUsedDict : adj(b) # NoAperture } }
             /\ \A i \in DOMAIN Place :
                  LET old == JobOf(Jobs, rjobs, Place[i])
                      new == JobOf(Jobs', rjobs', Place[i])
                  IN  hasLayer(old, L) =>
                        /\ Len(new.commands[L]) = Len(old.commands[L])
                        /\ \A k \in DOMAIN old.commands[L] :
                             LET t == old.commands[L][k]
                             IN  new.commands[L][k] =
                                   IF IsSel(t) /\ adj(t.ap) # NoAperture
                                   THEN Sel(code(t.ap)) ELSE t
             /\ \A nm \in DOMAIN Jobs :
                  /\ DOMAIN Jobs'[nm].commands = DOMAIN Jobs[nm].commands
                  /\ DOMAIN rjobs'[nm].commands = DOMAIN rjobs[nm].commands
                  /\ \A l \in DOMAIN Jobs[nm].commands \ { L } :
                       /\ Jobs'[nm].commands[l] = Jobs[nm].commands[l]
                       /\ rjobs'[nm].commands[l] = rjobs[nm].commands[l] ]_vars

C6_Witness ==
  /\ pc = "emit" /\ LayerList[layerIdx] = "*toplayer"
  /\ "*toplayer" \in DOMAIN MinimumFeatureDimension
  /\ 11 \notin apUsedDict /\ 10 \in apUsedDict
  /\ \E c \in apUsedDict : GAT[c] = Circle(8)
  /\ \E i \in DOMAIN Place :
       LET job == JobOf(Jobs, rjobs, Place[i])
       IN  /\ job.name = "a"
           /\ 11 \notin Selected(job.commands["*toplayer"])
           /\ 11 \in Selected(job.commands["*topsoldermask"])

\* the part of a layer file a line belongs to
Part(ln) ==
  CASE ln.k = "header" -> 0
    [] ln.k = "macrodef" -> 1
    [] ln.k = "apdef" -> 2
    [] ln.k = "M02" -> 6
    [] ln.by \in { "job", "cut" } -> 3
    [] ln.by = "crop" -> 4
    [] ln.by = "fid" -> 5
    [] OTHER -> 7

PartOf(out, r) == SelectSeq(out, LAMBDA ln : Part(ln) = r)

Ascending(defs) ==
  \A i \in DOMAIN defs : \A k \in DOMAIN defs : i < k => defs[i].n < defs[k].n

\* the lines a writer wrote for the i-th placed job
WrittenFor(out, w, i) == SelectSeq(out, LAMBDA ln : ln.by = w /\ ln.j = i)

WantsFiducials(L) ==
  Config.fiducialpoints # << >> /\ (IsCopper(L) \/ IsSoldermask(L))

\* C7: every layer of the layer list but 'centroid' gets a file written in
\* this order: the Gerber header, the definitions of the used macros in
\* ascending key order, the definitions of the used apertures in ascending
\* key order, then for each placed job in placement order its layer stream
\* immediately followed, on a cut line layer only, by the select of the cut
\* line aperture and the job's cut lines, then the crop marks on a crop mark
\* layer only, then the fiducial flashes when fiducials are configured and
\* the layer is a copper or soldermask layer, then M02 as the last line.
\* The loop produces no file for 'centroid'.
C7_LayerFileOrder ==
  \A n \in DOMAIN LayerList :
    n < layerIdx =>
      LET L == LayerList[n]
      IN  IF L = "centroid"
          THEN LayerFile(L) \notin DOMAIN files
                 /\ \A i \in DOMAIN OutputFiles : OutputFiles[i] # LayerFile(L)
          ELSE
            /\ LayerFile(L) \in DOMAIN files
            /\ LET out == files[LayerFile(L)]
                   body == PartOf(out, 3)
                   codes == { out[i].n : i \in { k \in DOMAIN out :
                                                   out[k].k = "select" } }
               IN  /\ \A i \in DOMAIN out : \A k \in DOMAIN out :
                        i < k => Part(out[i]) <= Part(out[k])
                   /\ PartOf(out, 7) = << >>
                   /\ Len(PartOf(out, 0)) = 1 /\ out[1].k = "header"
                   /\ out[1].n = writeGerberHeader
                   /\ Len(PartOf(out, 6)) = 1 /\ out[Len(out)].k = "M02"
                   /\ Ascending(PartOf(out, 1))
                   /\ { ln.n : ln \in Range(PartOf(out, 1)) } =
                        { GAT[c].macro : c \in { d \in codes : GAT[d].type = "Macro" } }
                   /\ Ascending(PartOf(out, 2))
                   /\ { ln.n : ln \in Range(PartOf(out, 2)) } = codes
                   /\ \A i \in DOMAIN body : \A k \in DOMAIN body :
                        i < k => /\ body[i].j <= body[k].j
                                 /\ (body[i].j = body[k].j /\ body[i].by = "cut")
                                      => body[k].by = "cut"
                   /\ \A i \in DOMAIN body : body[i].j \in DOMAIN Place
                   /\ \A i \in DOMAIN Place :
                        LET job == JobOf(Jobs, rjobs, Place[i])
                        IN  /\ WrittenFor(out, "job", i) =
                                 GerberLines(job, Place[i], L, i)
                            /\ WrittenFor(out, "cut", i) =
                                 IF IsCutLayer(Config, L)
                                 THEN << Line("select", "", drawing_code.cut,
                                              0, 0, 0, "cut", i) >>
                                      \o CutLines(job, Place[i], i)
                                 ELSE << >>
                   /\ PartOf(out, 4) =
                        IF IsCropLayer(Config, L)
                        THEN writeCropMarks(<< >>, GAT, drawing_code.crop, OriginX,
                                            OriginY, MaxXExtent, MaxYExtent)
                        ELSE << >>
                   /\ LET fids == PartOf(out, 5)
                      IN  IF WantsFiducials(L)
                          THEN /\ Len(fids) = 1 + Len(Config.fiducialpoints) \div 2
                               /\ fids[1].k = "select"
                               /\ fids[1].n = IF IsCopper(L)
                                              THEN drawing_code.fiducial_copper
                                              ELSE drawing_code.fiducial_soldermask
                               /\ \A i \in 2..Len(fids) :
                                    fids[i].k = "xy" /\ fids[i].d = 3
                          ELSE fids = << >>

C7_Witness ==
  /\ pc = "done" /\ result = "return 0"
  /\ LayerList = << "*toplayer", "*topsoldermask", "centroid" >>
  /\ Len(Place) = 2 /\ IsCutLayer(Config, "*toplayer")
  /\ LayerFile("centroid") \notin DOMAIN files
  /\ LET out == files[LayerFile("*toplayer")]
     IN  /\ PartOf(out, 1) # << >> /\ PartOf(out, 4) # << >>
         /\ PartOf(out, 5) # << >>
         /\ WrittenFor(out, "cut", 1) # << >> /\ WrittenFor(out, "job", 2) # << >>

(***************************************************************************)
(* SpecDrill: merge on the "drill" family.                                 *)
(***************************************************************************)
InitDrill ==
  /\ AtCall
  /\ disk = "drill"
  /\ opts \in { << >>, << Opt("--no-trim-excellon", "") >> }
  /\ args \in { << "merge.cfg" >>, << "merge.cfg", "layout.def" >> }

SpecDrill == InitDrill /\ [][Next]_vars

DrillFile == FileName("drills", "")

DrillsWritten == pc \in { "centroid", "toollist", "check", "done" }

\* the positions of the tool definitions in a drill file
ToolDefs(out) == { i \in DOMAIN out : out[i].k = "tooldef" }

\* the lines after the definition at position i, up to the next definition
\* or the footer
HitsAfter(out, i) ==
  LET stop == Min({ k \in DOMAIN out :
                      k > i /\ out[k].k \in { "tooldef", "M30" } })
  IN  SubSeq(out, i + 1, stop - 1)

DrillFrame(out) ==
  /\ Cardinality({ i \in DOMAIN OutputFiles : OutputFiles[i] = DrillFile }) = 1
  /\ out[1].k = "%" /\ out[Len(out)].k = "M30"
  /\ \A i \in DOMAIN out :
       /\ out[i].k \in { "%", "tooldef", "hit", "M30" }
       /\ out[i].k = "%" => i = 1
       /\ out[i].k = "M30" => i = Len(out)
  /\ { out[i].n : i \in ToolDefs(out) } = DOMAIN GlobalToolMap
  /\ \A i \in ToolDefs(out) :
       /\ out[i].x = GlobalToolMap[out[i].n]
       /\ \A k \in ToolDefs(out) : i < k => out[i].n < out[k].n

\* C8 (as claimed): the drill program is the Excellon header, then all tool
\* definitions in ascending tool order, then per tool the hits of every
\* placed job in placement order, then M30.
C8_DefinitionsThenHits ==
  DrillsWritten =>
    LET out == files[DrillFile]
    IN  /\ DrillFrame(out)
        /\ \A i \in DOMAIN out : \A k \in DOMAIN out :
             (out[i].k = "tooldef" /\ out[k].k = "hit") => i < k
        /\ SelectSeq(out, LAMBDA ln : ln.k = "hit") =
             Concat([ t \in DOMAIN Tools |->
                        JobsExcellon(Jobs, rjobs, Place, GlobalToolMap[Tools[t]]) ])

\* C8 (amended): the drill program is emitted once and is the Excellon
\* header, then for each tool in ascending tool order the tool's definition
\* with its diameter of GlobalToolMap immediately followed by the hits of
\* every placed job for that diameter in placement order, then M30 as the
\* last line.
C8_EachDefinitionThenItsHits ==
  DrillsWritten =>
    LET out == files[DrillFile]
    IN  /\ DrillFrame(out)
        /\ Len(out) >= 2 /\ (ToolDefs(out) = {} => Len(out) = 2)
        /\ ToolDefs(out) # {} => Min(ToolDefs(out)) = 2
        /\ \A i \in ToolDefs(out) :
             LET hits == HitsAfter(out, i)
             IN  /\ hits = JobsExcellon(Jobs, rjobs, Place, out[i].x)
                 /\ \A a \in DOMAIN hits : \A b \in DOMAIN hits :
                      a < b => hits[a].j <= hits[b].j

C8_Witness ==
  /\ pc = "done" /\ Len(Place) = 2 /\ Len(Tools) >= 2
  /\ LET out == files[DrillFile]
     IN  \E i \in ToolDefs(out) : \E k \in ToolDefs(out) :
           /\ i < k
           /\ \E a \in DOMAIN HitsAfter(out, i) : \E b \in DOMAIN HitsAfter(out, i) :
                HitsAfter(out, i)[a].j = 1 /\ HitsAfter(out, i)[b].j = 2
           /\ HitsAfter(out, k) # << >>

(***************************************************************************)
(* SpecNorm: merge on the "norm" family.                                   *)
(***************************************************************************)
InitNorm ==
  /\ AtCall
  /\ disk = "norm"
  /\ opts \in { << >>, << Opt("--no-trim-gerber", ""), Opt("--no-trim-excellon", "") >> }
  /\ args \in { << "merge.cfg" >>, << "merge.cfg", "layout.def" >> }

SpecNorm == InitNorm /\ [][Next]_vars

\* all x and all y coordinates of a job, over its layers and its drill data
AllX(job) == { t.x : t \in CoordTokens(job) } \cup { h[1] : h \in DrillHits(job) }

AllY(job) == { t.y : t \in CoordTokens(job) } \cup { h[2] : h \in DrillHits(job) }

\* a job is another one moved by (sx, sy)
MovedBy(new, old, sx, sy) ==
  /\ DOMAIN new.commands = DOMAIN old.commands
  /\ \A l \in DOMAIN old.commands :
       /\ Len(new.commands[l]) = Len(old.commands[l])
       /\ \A i \in DOMAIN old.commands[l] :
            LET t == old.commands[l][i]
                u == new.commands[l][i]
            IN  IF IsSel(t) THEN u = t
                ELSE u.ap = 0 /\ u.d = t.d /\ u.x = t.x + sx /\ u.y = t.y + sy
  /\ DOMAIN new.xcommands = DOMAIN old.xcommands
  /\ \A t \in DOMAIN old.xcommands :
       /\ Len(new.xcommands[t]) = Len(old.xcommands[t])
       /\ \A i \in DOMAIN old.xcommands[t] :
            new.xcommands[t][i] = << old.xcommands[t][i][1] + sx,
                                     old.xcommands[t][i][2] + sy >>

\* C9: the normalization step leaves every job with min_x >= 0 and
\* min_y >= 0: a job whose minimum over all layers and the drill data is
\* negative on an axis is moved by exactly the absolute value of that minimum
\* on that axis, a job with both minima non-negative is not changed, and the
\* step applied a second time changes no job.
C9_NormalizationMakesPositive ==
  [][ pc = "normalize" =>
        /\ pc' = "trim"
        /\ DOMAIN Jobs' = DOMAIN Jobs
        /\ \A nm \in DOMAIN Jobs :
             LET old == Jobs[nm]
                 new == Jobs'[nm]
                 sx == IF Min(AllX(old)) < 0 THEN Abs(Min(AllX(old))) ELSE 0
                 sy == IF Min(AllY(old)) < 0 THEN Abs(Min(AllY(old))) ELSE 0
             IN  /\ Min(AllX(new)) >= 0 /\ Min(AllY(new)) >= 0
                 /\ MovedBy(new, old, sx, sy)
                 /\ (sx = 0 /\ sy = 0) => new = old
                 /\ NormalizeJob(new) = new ]_vars

C9_Witness ==
  /\ pc = "trim" /\ disk = "norm"
  /\ LET job == Jobs["a"]
     IN  /\ job.xcommands[1][1] = Hit(0, 40)
         /\ job.commands["*toplayer"][2].x = 130
         /\ job.commands["*toplayer"][2].y = 130
         /\ job.minx = 30

(***************************************************************************)
(* The aperture table during a run (SpecLayers).                           *)
(***************************************************************************)
EmissionStarted ==
  pc \in { "layer", "thicken", "emit", "outline", "scoring", "tools", "fab",
           "drill", "centroid", "toollist", "check", "done" }

\* the apertures merge draws with: cut lines, crop marks, fiducials (when
\* configured) and the fabrication drawing
DrawingApertures(cfg) ==
  { Circle(cfg.cutlinewidth), Circle(cfg.cropmarkwidth), Circle(1) } \cup
  (IF cfg.fiducialpoints # << >>
   THEN { Circle(cfg.fiducialcopperdiameter), Circle(cfg.fiducialmaskdiameter) }
   ELSE {})

ToolTablesBuilt ==
  pc \in { "fab", "drill", "centroid", "toollist", "check", "done" }

\* C12 (as claimed): once the tool tables are built, whatever GlobalToolRMap
\* held before, no two distinct diameters of GlobalToolRMap share a tool
\* name and GlobalToolMap[GlobalToolRMap[d]] = d for every diameter d of
\* GlobalToolRMap.
C12_ToolMapInvertsRMap ==
  ToolTablesBuilt =>
    /\ \A d \in DOMAIN GlobalToolRMap : \A e \in DOMAIN GlobalToolRMap :
         GlobalToolRMap[d] = GlobalToolRMap[e] => d = e
    /\ \A d \in DOMAIN GlobalToolRMap :
         /\ GlobalToolRMap[d] \in DOMAIN GlobalToolMap
         /\ GlobalToolMap[GlobalToolRMap[d]] = d

(***************************************************************************)
(* SpecPack: merge on the "pack" family, the placement left to the packer. *)
(***************************************************************************)
InitPack ==
  /\ AtCall
  /\ disk = "pack"
  /\ opts \in { << >>, << Opt("--full-search", "") >>, << Opt("--random-search", "") >> }
  /\ args = << "merge.cfg" >>

SpecPack == InitPack /\ [][Next]_vars

\* tile_jobs has been called (and has returned or raised)
PackerCalled ==
  /\ PlacementSource(args, config) = "packer"
  /\ \/ pc = "placed"
     \/ pc = "raised" /\ result = "Panel size is too small to hold jobs"

LargerSide(e) == IF e.Xdim > e.Ydim THEN e.Xdim ELSE e.Ydim

\* C13: the list tile_jobs hands to the packer is in non-increasing order
\* of max(width, height), holds each job exactly Repeat times as consecutive
\* entries and sum(Repeat) entries in all, and each entry carries the job's
\* native width and height, the job and its 90-degree rotated counterpart.
C13_PackerListSortedAndRepeated ==
  PackerCalled =>
    LET L == PackerList(Jobs)
    IN  /\ Len(L) = SumSeq([ i \in DOMAIN SetToSeq(DOMAIN Jobs) |->
                               Jobs[SetToSeq(DOMAIN Jobs)[i]].Repeat ])
        /\ \A i \in DOMAIN L : \A k \in DOMAIN L :
             i < k => LargerSide(L[i]) >= LargerSide(L[k])
        /\ \A nm \in DOMAIN Jobs :
             LET at == { i \in DOMAIN L : L[i].job = nm }
             IN  /\ Cardinality(at) = Jobs[nm].Repeat
                 /\ \A i \in at : \A k \in at : \A m \in i..k : m \in at
        /\ \A i \in DOMAIN L :
             /\ L[i].job \in DOMAIN Jobs
             /\ L[i].Xdim = Jobs[L[i].job].maxx - Jobs[L[i].job].minx
             /\ L[i].Ydim = Jobs[L[i].job].maxy - Jobs[L[i].job].miny
             /\ L[i].rjob = L[i].job
             /\ rjobs[L[i].rjob] = rotateJob(Jobs[L[i].job])
             /\ width_in(rjobs[L[i].rjob]) = L[i].Ydim
             /\ height_in(rjobs[L[i].rjob]) = L[i].Xdim

C13_Witness ==
  /\ pc = "placed" /\ PlacementSource(args, config) = "packer" /\ tile # NoTile
  /\ DOMAIN Jobs = { "a", "b", "c" }
  /\ Jobs["a"].Repeat = 2 /\ Jobs["b"].Repeat = 2
  /\ LET L == PackerList(Jobs)
     IN  /\ Len(L) = 5 /\ L[1].job = "c" /\ L[2].job = "a" /\ L[3].job = "a"
         /\ L[4].job = "b"

(***************************************************************************)
(* Selected and defined apertures of a layer file (SpecLayers).            *)
(***************************************************************************)
\* the positions of the aperture selects of a file, by any writer
Selects(out) == { i \in DOMAIN out : out[i].k = "select" }

\* C14: when a layer file is written, every aperture code selected in its
\* body, by a placed job's stream after thickening, by the cut line select
\* after a job, by the crop mark writer or by the fiducial writer, is in
\* the layer's used-aperture set that writeApertures is called with and in
\* GAT, so the file defines it, ahead of the select.
C14_SelectedAperturesAreDefined ==
  [][ pc = "emit" =>
        LET out == files'[LayerFile(LayerList[layerIdx])]
        IN  /\ out[Len(out)].k = "M02"
            /\ \A i \in Selects(out) :
                 /\ out[i].by \in { "job", "cut", "crop", "fid" }
                 /\ out[i].n \in apUsedDict'
                 /\ out[i].n \in DOMAIN GAT
                 /\ \E d \in 1..(i - 1) :
                      /\ out[d].k = "apdef" /\ out[d].n = out[i].n
                      /\ out[d].s = GAT[out[i].n].type
                      /\ out[d].x = GAT[out[i].n].dimx ]_vars

C14_Witness ==
  /\ pc = "layer" /\ layerIdx = 2 /\ LayerList[1] = "*toplayer"
  /\ "*toplayer" \in DOMAIN MinimumFeatureDimension
  /\ LET out == files[LayerFile("*toplayer")]
     IN  /\ \A w \in { "job", "cut", "crop", "fid" } :
              \E i \in Selects(out) : out[i].by = w
         /\ \E i \in Selects(out) :
              out[i].by = "job" /\ GAT[out[i].n] = Circle(8)
         /\ \A i \in Selects(out) : out[i].n # 11
=============================================================================
